---- MODULE Spec2Model ----
(***************************************************************************)
(* Model of the Stats React API backend (backend/app.py, backend/routes,   *)
(* backend/services).                                                      *)
(*                                                                         *)
(* Spec       : the request handlers over the process-wide table store     *)
(*              uploaded_files.  upload_file is two steps (it suspends at  *)
(*              `await file.read()`); every other handler has no await     *)
(*              and runs to completion as one step of the event loop.      *)
(* DetectSpec : the variable-type detector applied by analyze_variables to *)
(*              one column of a stored table.                              *)
(* TestSpec   : the statistical-test routes applied to one stored table.   *)
(* SummarySpec: the two summary-statistics endpoints applied to one column *)
(*              of a stored table.                                         *)
(* BatchSpec  : the operations that loop over several columns of a stored  *)
(*              table: batch summary-statistics and analyze.               *)
(* RegressionSpec : the two regression routes applied to one stored table. *)
(* PreviewSpec: the preview that upload_file and load_sample_data build    *)
(*              from one parsed table.                                     *)
(* InterpretSpec : the interpretation string a test runner derives from    *)
(*              the statistics its scipy function returned.                *)
(* PairSpec   : the paired and correlation tests, up to the call of the    *)
(*              statistic, on the two variables of one stored table.       *)
(* HistogramSpec : prepare_histogram_data on one variable of a stored      *)
(*              table.                                                     *)
(* NormalitySpec : the normality tests of compute_numeric_summary on one   *)
(*              column.                                                    *)
(* GroupStatsSpec : the per-group statistics of run_anova and              *)
(*              run_kruskal_wallis on one stored table.                    *)
(***************************************************************************)
EXTENDS Integers, Sequences, FiniteSets, TLC

VARIABLES
    uploaded_files,  \* app.py:63   file_id -> [dataframe, filename, rows, columns]
    issued,          \* identifiers uuid.uuid4() has returned so far
    reading,         \* upload requests suspended at `await file.read()`: filename -> how many
    nreq,            \* upload / load-sample requests begun
    okUploads,       \* upload / load-sample requests answered 200
    req,             \* the request handled last, with the facts the handler saw
    resp,            \* the response to it
    column,          \* DetectSpec: the column handed to detect_variable_type
    detection,       \* DetectSpec: what analyze_variables computed for it
    data,            \* TestSpec: the rows of the stored table
    result,          \* TestSpec: the response of the test route
    variable,        \* SummarySpec: the values of the column, in row order
    summary_req,     \* SummarySpec: the summary-statistics request
    summary_resp,    \* SummarySpec: the response to it
    batch,           \* BatchSpec: a request over several columns
    batch_resp,      \* BatchSpec: the response to it
    sample,          \* RegressionSpec: the regression request and the table, as the runner reads them
    fit,             \* RegressionSpec: the response of the regression route
    preview_table,   \* PreviewSpec: the parsed table, as the preview code reads it
    preview_resp,    \* PreviewSpec: the response of upload / load-sample
    statistic,       \* InterpretSpec: what the scipy function of the test returned
    interpreted,     \* InterpretSpec: the statistics and the interpretation in the result
    pair_table,      \* PairSpec: the two variables of the stored table, row by row
    arrays,          \* PairSpec: the arrays the test hands to its statistic
    hist_input,      \* HistogramSpec: the variable and the groups, as prepare_histogram_data reads them
    histogram,       \* HistogramSpec: the traces it returns
    numeric_input,   \* NormalitySpec: the column handed to compute_numeric_summary
    normality,       \* NormalitySpec: the fields of the summary it returns
    group_table,     \* GroupStatsSpec: the groups of the stored table
    group_stats      \* GroupStatsSpec: the result of run_anova / run_kruskal_wallis

vars == <<uploaded_files, issued, reading, nreq, okUploads, req, resp,
          column, detection, data, result, variable, summary_req, summary_resp,
          batch, batch_resp, sample, fit, preview_table, preview_resp,
          statistic, interpreted,
          pair_table, arrays,
          hist_input, histogram,
          numeric_input, normality,
          group_table, group_stats>>

serverVars == <<uploaded_files, issued, reading, nreq, okUploads, req, resp>>
detectVars == <<column, detection>>
testVars == <<data, result>>
summaryVars == <<variable, summary_req, summary_resp>>
batchVars == <<batch, batch_resp>>
regressionVars == <<sample, fit>>
otherVars == <<summaryVars, batchVars, regressionVars>>
previewVars == <<preview_table, preview_resp>>
interpretVars == <<statistic, interpreted>>
pairVars == <<pair_table, arrays>>
histogramVars == <<hist_input, histogram>>
normalityVars == <<numeric_input, normality>>
groupStatsVars == <<group_table, group_stats>>
extraVars ==
    <<previewVars, interpretVars, pairVars, histogramVars, normalityVars, groupStatsVars>>
coreVars == <<serverVars, detectVars, testVars, otherVars>>
besidesPreview ==
    <<coreVars, interpretVars, pairVars, histogramVars, normalityVars, groupStatsVars>>
besidesInterpret ==
    <<coreVars, previewVars, pairVars, histogramVars, normalityVars, groupStatsVars>>
besidesPairs ==
    <<coreVars, previewVars, interpretVars, histogramVars, normalityVars, groupStatsVars>>
besidesHistogram ==
    <<coreVars, previewVars, interpretVars, pairVars, normalityVars, groupStatsVars>>
besidesNormality ==
    <<coreVars, previewVars, interpretVars, pairVars, histogramVars, groupStatsVars>>
besidesGroupStats ==
    <<coreVars, previewVars, interpretVars, pairVars, histogramVars, normalityVars>>

-----------------------------------------------------------------------------
(* Bounds of the model *)

MaxReq == 2
MaxTableRows == 1

\* The identifiers of the model: one for each request that can store a table
UUIDs == 1..MaxReq

-----------------------------------------------------------------------------
(* Files: names and contents *)

\* A filename is represented by its suffix; the stem plays no part in the code.
NoName == "<none>"
Filenames == {".csv", ".CSV", ".xlsx", ".txt"}

\* str.lower() on the names of the model
Lower(name) ==
    CASE name = ".CSV" -> ".csv"
      [] name = ".XLSX" -> ".xlsx"
      [] OTHER -> name

\* str.endswith(suffix), case-sensitive as in Python
EndsWith(name, suffix) == name = suffix

\* The bytes of a file: their format and the table they encode: a table of
\* two columns and some rows, or nothing at all.
Contents ==
    [format : {"csv", "excel"}, rows : 0..MaxTableRows, columns : {<<"g", "x">>}]
    \cup [format : {"csv", "excel"}, rows : {0}, columns : {<< >>}]
NoContent == [format |-> "none", rows |-> 0, columns |-> << >>]

Table(content) == [rows |-> content.rows, columns |-> content.columns]

Ok(df) == [ok |-> TRUE, df |-> df, exc |-> "none"]
Raise(e) == [ok |-> FALSE, df |-> [rows |-> 0, columns |-> << >>], exc |-> e]

\* pd.read_csv: a file without columns raises EmptyDataError, bytes that are
\* not text raise a decoding/parsing error.
read_csv(content) ==
    IF content.format # "csv" THEN Raise("ParserError")
    ELSE IF content.columns = << >> THEN Raise("EmptyDataError")
    ELSE Ok(Table(content))

\* pd.read_excel: raises ValueError when the bytes are no workbook.
read_excel(content) ==
    IF content.format # "excel" THEN Raise("ValueError")
    ELSE Ok(Table(content))

\* `if filename.endswith('.csv'): read_csv else: read_excel` as in a correct,
\* case-insensitive dispatch (used as the reference in the claims' formulas)
LoadDataframeLower(name, content) ==
    IF EndsWith(Lower(name), ".csv") THEN read_csv(content) ELSE read_excel(content)

\* app.py:199-202 and 113-116: the dispatch tests the name as given
LoadDataframe(name, content) ==
    IF EndsWith(name, ".csv") THEN read_csv(content) ELSE read_excel(content)

\* app.py:189-190: the extension check of upload_file
ExtensionAllowed(name) ==
    LET filename_lower == IF name = NoName THEN "" ELSE Lower(name)
    IN  \/ EndsWith(filename_lower, ".csv")
        \/ EndsWith(filename_lower, ".xlsx")
        \/ EndsWith(filename_lower, ".xls")

\* DataFrame.empty
Empty(df) == df.rows = 0 \/ df.columns = << >>

-----------------------------------------------------------------------------
(* The store *)

\* uuid.uuid4(): the identifiers it may return.  Version-4 UUIDs are 122 random
\* bits; the model takes the library's contract that a returned identifier was
\* never returned before.
uuid4(used) == UUIDs \ used

\* d[k] = v on a Python dict: inserts, or replaces the value under k
DictSetOnly(d, k, v) == [i \in {k} |-> v]

DictSet(d, k, v) == [i \in (DOMAIN d) \cup {k} |-> IF i = k THEN v ELSE d[i]]

\* app.py:219-224 and 133-138: the entry stored for a parsed table
Entry(df, name) ==
    [dataframe |-> df, filename |-> name, rows |-> df.rows, columns |-> df.columns]

-----------------------------------------------------------------------------
(* Requests and responses *)

NoReq ==
    [endpoint |-> "none", filename |-> NoName, content |-> NoContent,
     inside |-> FALSE, exists |-> FALSE, known |-> FALSE, raised |-> FALSE, invalid |-> FALSE]

NoResp ==
    [status |-> 0, detail |-> "", file_id |-> 0, rows |-> 0, columns |-> << >>]

FileReq(ep, name, content) ==
    [NoReq EXCEPT !.endpoint = ep, !.filename = name, !.content = content]

\* A request of an endpoint that takes a table identifier: `known` is whether
\* the identifier was in the store when the handler looked it up, `invalid`
\* whether a parameter check of the handler failed, `raised` whether the
\* statistics / data-shaping computation raised.
IdReq(ep, known, invalid, raised) ==
    [NoReq EXCEPT !.endpoint = ep, !.known = known,
                  !.invalid = invalid, !.raised = raised]

HTTP(status, detail) == [NoResp EXCEPT !.status = status, !.detail = detail]

UploadOk(fid, df) ==
    [status |-> 200, detail |-> "", file_id |-> fid, rows |-> df.rows,
     columns |-> df.columns]

-----------------------------------------------------------------------------
(* upload_file and load_sample_data *)

\* app.py:260-266 and 174-180: the except clauses of the two handlers.  An
\* HTTPException raised inside the try block is an Exception, so it leaves
\* through the last clause, with status 400 again.
FileError(exc) ==
    CASE exc = "EmptyDataError" -> HTTP(400, "File is empty")
      [] exc = "ParserError" -> HTTP(400, "Invalid file format")
      [] OTHER -> HTTP(400, "Error processing file")

\* app.py:198-258 and 112-172: from the bytes to the response.  fid is the
\* value uuid4() returns if the handler gets that far; previewRaises is
\* whether building the preview / dtypes (after the insert) raises.
\* The result is the store, the identifiers issued and the response.
ProcessFile(name, content, store, used, fid, previewRaises) ==
    LET parsed == LoadDataframe(name, content)
        df == parsed.df
    IN  IF ~parsed.ok THEN [store |-> store, used |-> used, resp |-> FileError(parsed.exc)]
        ELSE IF Empty(df)
            THEN [store |-> store, used |-> used, resp |-> FileError("HTTPException")]
        ELSE [store |-> DictSet(store, fid, Entry(df, name)),
              used |-> used \cup {fid},
              resp |-> IF previewRaises THEN FileError("Exception")
                       ELSE UploadOk(fid, df)]

CountOk(r) == IF r.status = 200 THEN 1 ELSE 0

\* Whether the handler gets as far as building the preview (app.py:226, 140)
PreviewReached(name, content) ==
    LoadDataframe(name, content).ok /\ ~Empty(LoadDataframe(name, content).df)

\* app.py:185-192: upload_file up to the extension check; a rejected name is
\* answered at once.
UploadReject(name) ==
    /\ nreq < MaxReq
    /\ ~ExtensionAllowed(name)
    /\ nreq' = nreq + 1
    /\ req' = FileReq("upload", name, NoContent)
    /\ resp' = FileError("HTTPException")
    /\ UNCHANGED <<uploaded_files, issued, reading, okUploads, detectVars, testVars, otherVars, extraVars>>

\* app.py:185-195: upload_file up to `contents = await file.read()`, where the
\* handler is suspended and other requests run.
UploadBegin(name) ==
    /\ nreq < MaxReq
    /\ ExtensionAllowed(name)
    /\ nreq' = nreq + 1
    /\ reading' = [reading EXCEPT ![name] = @ + 1]
    /\ UNCHANGED <<uploaded_files, issued, okUploads, req, resp, detectVars, testVars, otherVars, extraVars>>

\* app.py:195-266: upload_file from the resumption to the response.
UploadFinish(name, content, previewRaises) ==
    /\ reading[name] > 0
    /\ \E fid \in uuid4(issued) :
         LET out == ProcessFile(name, content, uploaded_files, issued,
                                fid, previewRaises)
         IN  /\ uploaded_files' = out.store
             /\ issued' = out.used
             /\ resp' = out.resp
             /\ okUploads' = okUploads + CountOk(out.resp)
    /\ req' = [FileReq("upload", name, content)
                 EXCEPT !.raised = previewRaises /\ PreviewReached(name, content)]
    /\ reading' = [reading EXCEPT ![name] = @ - 1]
    /\ UNCHANGED <<nreq, detectVars, testVars, otherVars, extraVars>>

\* The three checks with the existence check first
SampleCheck_exists_first(name, inside, exists) ==
    IF ~exists THEN HTTP(404, "Sample file not found")
    ELSE IF ~inside THEN HTTP(400, "Invalid filename")
    ELSE IF Lower(name) \notin {".csv", ".xlsx", ".xls"} THEN HTTP(400, "Invalid file type")
    ELSE NoResp

\* app.py:89-103: the three checks of load_sample_data, in the code's order.
\* inside: file_path.resolve() is under the sample directory; exists: the path
\* names a file.
SampleCheck(name, inside, exists) ==
    IF ~inside THEN HTTP(400, "Invalid filename")
    ELSE IF ~exists THEN HTTP(404, "Sample file not found")
    ELSE IF Lower(name) \notin {".csv", ".xlsx", ".xls"} THEN HTTP(400, "Invalid file type")
    ELSE NoResp

\* app.py:89-103: load_sample_data answered by one of its three checks.
LoadSampleReject(name, inside, exists) ==
    /\ nreq < MaxReq
    /\ SampleCheck(name, inside, exists) # NoResp
    /\ nreq' = nreq + 1
    /\ req' = [FileReq("load-sample", name, NoContent)
                 EXCEPT !.inside = inside, !.exists = inside /\ exists]
    /\ resp' = SampleCheck(name, inside, exists)
    /\ UNCHANGED <<uploaded_files, issued, reading, okUploads, detectVars, testVars, otherVars, extraVars>>

\* app.py:89-180: load_sample_data on a file of the sample directory.  The
\* handler has no await: one step.
LoadSample(name, content, previewRaises) ==
    /\ nreq < MaxReq
    /\ SampleCheck(name, TRUE, TRUE) = NoResp
    /\ nreq' = nreq + 1
    /\ req' = [FileReq("load-sample", name, content)
                 EXCEPT !.inside = TRUE, !.exists = TRUE,
                        !.raised = previewRaises /\ PreviewReached(name, content)]
    /\ \E fid \in uuid4(issued) :
         LET out == ProcessFile(name, content, uploaded_files, issued,
                                fid, previewRaises)
         IN  /\ uploaded_files' = out.store
             /\ issued' = out.used
             /\ resp' = out.resp
             /\ okUploads' = okUploads + CountOk(out.resp)
    /\ UNCHANGED <<reading, detectVars, testVars, otherVars, extraVars>>

-----------------------------------------------------------------------------
(* The endpoints that take a table identifier *)

\* The identifiers a request may name: those of the model and one (0) that
\* uuid4 never returns, so that an unknown identifier always exists.
RequestIds == UUIDs \cup {0}

\* `file_id in uploaded_files`
Known(fid) == fid \in DOMAIN uploaded_files

\* What the lookup of the requested identifiers can find
Lookups == {Known(fid) : fid \in RequestIds}

\* Each handler below is the response as a function of what the handler finds:
\* known   - file_id in uploaded_files
\* check   - the first parameter check that fails, "ok" if none does
\* raises  - the computation (pandas / scipy / statsmodels call) raises

\* app.py:268-316 analyze_data: HTTPException is re-raised, any other
\* exception is answered 400.
analyze_data(known, check, raises) ==
    IF ~known THEN HTTP(404, "File not found")
    ELSE IF check = "no_columns" THEN HTTP(400, "No columns specified")
    ELSE IF check = "no_numeric" THEN HTTP(400, "No valid numeric columns found")
    ELSE IF check = "unknown_type" THEN HTTP(400, "Unknown analysis type")
    ELSE IF raises THEN HTTP(400, "Error performing analysis")
    ELSE HTTP(200, "")

\* app.py:682-731 analyze_variables
analyze_variables(known, raises) ==
    IF ~known THEN HTTP(404, "File not found")
    ELSE IF raises THEN HTTP(400, "Error analyzing variables")
    ELSE HTTP(200, "")

\* app.py:733-793 get_summary_statistics
get_summary_statistics(known, check, raises) ==
    IF ~known THEN HTTP(404, "File not found")
    ELSE IF check = "no_variables" THEN HTTP(400, "No variables specified")
    ELSE IF raises THEN HTTP(400, "Error computing summary statistics")
    ELSE HTTP(200, "")

\* app.py:795-845 get_single_variable_summary
get_single_variable_summary(known, check, raises) ==
    IF ~known THEN HTTP(404, "File not found")
    ELSE IF check = "no_variable" THEN HTTP(404, "Variable not found")
    ELSE IF check = "no_type" THEN HTTP(400, "Variable type (varType) is required")
    ELSE IF check = "unknown_type" THEN HTTP(400, "Unknown variable type")
    ELSE IF raises THEN HTTP(400, "Error computing summary")
    ELSE HTTP(200, "")

\* app.py:1229-1295 get_visualization_data: the only except clause is
\* `except Exception`, which also catches the HTTPExceptions raised in the try
\* block and answers 500 with their text.
get_visualization_data(known, check, raises) ==
    IF ~known THEN HTTP(500, "404: File not found")
    ELSE IF check = "invalid_plot" THEN HTTP(500, "400: Invalid plot type")
    ELSE IF raises THEN HTTP(500, "exception text")
    ELSE HTTP(200, "")

\* routes/statistical_tests.py:29-45 and routes/regression.py:18-34
load_file_data(known) ==
    IF ~known THEN HTTP(404, "File not found") ELSE NoResp

\* The route with the table looked up before the variables are checked
stat_test_route_lookup_first(known, check, raises) ==
    IF load_file_data(known) # NoResp THEN load_file_data(known)
    ELSE IF check = "missing_variables" THEN HTTP(400, "Missing required variables")
    ELSE IF raises THEN HTTP(500, "exception text")
    ELSE HTTP(200, "")

\* routes/statistical_tests.py:47-205: the ten routes have one shape.  The
\* required variables are checked first, then the table is looked up, then
\* the runner runs; HTTPException is re-raised, any other exception is 500.
stat_test_route(known, check, raises) ==
    IF check = "missing_variables" THEN HTTP(400, "Missing required variables")
    ELSE IF load_file_data(known) # NoResp THEN load_file_data(known)
    ELSE IF raises THEN HTTP(500, "exception text")
    ELSE HTTP(200, "")

\* routes/regression.py:36-78: linear and logistic have one shape.
regression_route(known, check, raises) ==
    IF check = "missing_dependent" THEN HTTP(400, "Missing required variable: dependent")
    ELSE IF check = "missing_independent"
        THEN HTTP(400, "Missing required variables: independent")
    ELSE IF load_file_data(known) # NoResp THEN load_file_data(known)
    ELSE IF raises THEN HTTP(500, "exception text")
    ELSE HTTP(200, "")

\* Whether the handler got as far as the computation
Ran(known, check) == known /\ check = "ok"

\* The parameter checks of each endpoint
AnalyzeChecks == {"ok", "no_columns", "no_numeric", "unknown_type"}
SummaryChecks == {"ok", "no_variables"}
SingleChecks == {"ok", "no_variable", "no_type", "unknown_type"}
VisualizeChecks == {"ok", "invalid_plot"}
TestChecks == {"ok", "missing_variables"}
RegressionChecks == {"ok", "missing_dependent", "missing_independent"}

\* What a request can meet: one of the failing checks, or none and then a
\* computation that returns or raises.
Outcomes(checks) == (checks \X {FALSE}) \cup {<<"ok", TRUE>>}

\* A handler without await: one step that reads the store and answers.
Answer(ep, known, check, raises, response) ==
    /\ req' = IdReq(ep, known, check # "ok", Ran(known, check) /\ raises)
    /\ resp' = response
    /\ UNCHANGED <<uploaded_files, issued, reading, nreq, okUploads, detectVars, testVars, otherVars, extraVars>>

Analyze(known, check, raises) ==
    Answer("analyze", known, check, raises, analyze_data(known, check, raises))

AnalyzeVariables(known, raises) ==
    Answer("analyze-variables", known, "ok", raises, analyze_variables(known, raises))

SummaryStatistics(known, check, raises) ==
    Answer("summary-statistics", known, check, raises,
           get_summary_statistics(known, check, raises))

SingleVariableSummary(known, check, raises) ==
    Answer("summary-statistics-variable", known, check, raises,
           get_single_variable_summary(known, check, raises))

Visualize(known, check, raises) ==
    Answer("visualize", known, check, raises,
           get_visualization_data(known, check, raises))

StatisticalTest(known, check, raises) ==
    Answer("statistical-tests", known, check, raises,
           stat_test_route(known, check, raises))

Regression(known, check, raises) ==
    Answer("regression", known, check, raises,
           regression_route(known, check, raises))

-----------------------------------------------------------------------------
(* The group tests: services/test_runner.py, routes/statistical_tests.py *)

\* Bounds on the tables of the model
MaxGroups == 3
MaxGroupSize == 3

\* A table by what the group tests read of it: sizes[i] is the number of
\* numeric values of the i-th distinct non-missing value of the grouping
\* column (its groups, in order of appearance).  The values of a group are
\* taken not to be all equal.
NoData == [sizes |-> << >>]
Tables == {[sizes |-> s] : s \in UNION {[1..k -> 1..MaxGroupSize] : k \in 0..MaxGroups}}

\* A computed statistic is a finite number or is undefined
Undefined == {"nan", "inf", "-inf"}

\* test_runner.py:6-16: safe_float(value, default=0.0)
safe_float(value) == IF value \in Undefined THEN "0.0" ELSE value

RECURSIVE Total(_)
Total(sizes) == IF sizes = << >> THEN 0 ELSE Head(sizes) + Total(Tail(sizes))

\* np.std(values, ddof=1) divides by n - 1
std(n) == IF n < 2 THEN "nan" ELSE "finite"

\* stats.ttest_ind pools the two variances, each with ddof=1
ttest_ind(n1, n2) == IF n1 < 2 \/ n2 < 2 THEN "nan" ELSE "finite"

\* stats.f_oneway divides by the within-groups degrees of freedom N - k
f_oneway(sizes) == IF Total(sizes) - Len(sizes) = 0 THEN "nan" ELSE "finite"

Raised(text) == [raised |-> TRUE, exc |-> text, raw |-> << >>, reported |-> << >>]
Returned(raw) ==
    [raised |-> FALSE, exc |-> "", raw |-> raw,
     reported |-> [i \in DOMAIN raw |-> safe_float(raw[i])]]

\* test_runner.py:30-123: the statistic, then the std of each group
run_ttest(sizes) ==
    IF Len(sizes) # 2
    THEN Raised("Error in t-test: t-test requires exactly 2 groups")
    ELSE Returned(<<ttest_ind(sizes[1], sizes[2]), std(sizes[1]), std(sizes[2])>>)

\* test_runner.py:211-290
run_anova(sizes) ==
    IF Len(sizes) < 2
    THEN Raised("Error in ANOVA: ANOVA requires at least 2 groups")
    ELSE Returned(<<f_oneway(sizes)>> \o [i \in DOMAIN sizes |-> std(sizes[i])])

\* test_runner.py:293-338: the U statistic, then the median of each group
run_mann_whitney(sizes) ==
    IF Len(sizes) # 2
    THEN Raised("Error in Mann-Whitney U test: Mann-Whitney U test requires exactly 2 groups")
    ELSE Returned(<<"finite", "finite", "finite">>)

\* test_runner.py:383-430: the H statistic, then the median of each group
run_kruskal_wallis(sizes) ==
    IF Len(sizes) < 2
    THEN Raised("Error in Kruskal-Wallis test: Kruskal-Wallis test requires at least 2 groups")
    ELSE Returned(<<"finite">> \o [i \in DOMAIN sizes |-> "finite"])

NoResult ==
    [test |-> "none", status |-> 0, detail |-> "", raw |-> << >>, reported |-> << >>]

\* statistical_tests.py:47-61, 79-109, 127-141: the route of a group test on
\* a stored table, with both variables named
TestResponse(test, outcome) ==
    LET http == stat_test_route(TRUE, "ok", outcome.raised)
    IN  [test |-> test,
         status |-> http.status,
         detail |-> IF outcome.raised THEN outcome.exc ELSE http.detail,
         raw |-> outcome.raw,
         reported |-> outcome.reported]

ttest ==
    /\ result' = TestResponse("ttest", run_ttest(data.sizes))
    /\ UNCHANGED <<data, serverVars, detectVars, otherVars, extraVars>>

anova ==
    /\ result' = TestResponse("anova", run_anova(data.sizes))
    /\ UNCHANGED <<data, serverVars, detectVars, otherVars, extraVars>>

mann_whitney ==
    /\ result' = TestResponse("mann_whitney", run_mann_whitney(data.sizes))
    /\ UNCHANGED <<data, serverVars, detectVars, otherVars, extraVars>>

kruskal_wallis ==
    /\ result' = TestResponse("kruskal_wallis", run_kruskal_wallis(data.sizes))
    /\ UNCHANGED <<data, serverVars, detectVars, otherVars, extraVars>>

-----------------------------------------------------------------------------
(* The type detector: app.py:388-468 *)

\* Bounds on the columns of the model
SmallRows == 5
LargeRowsFrom == 38
MaxRows == 42
MaxMissing == 2
MaxOverSample == 2

\* Constants of the detector
SampleMax == 100
DateRatePercent == 80
NumericRatePercent == 90
CategoricalCap == 20

\* A column (pandas Series) by what the detector reads of it:
\*   dtype   - "numeric" when is_numeric_dtype holds, else "object"
\*   len     - number of entries, the missing ones included
\*   missing - number of missing entries
\*   unique  - series.nunique(): distinct non-missing values
\*   nDate   - non-missing values whose text matches a date pattern and does
\*             not convert to a number         ("2024-01-15")
\*   nNum    - values that convert to a number and match no date pattern ("3.5")
\*   nBoth   - values that do both              ("20240115")
\* the remaining non-missing values do neither ("hello").
NoColumn ==
    [dtype |-> "none", len |-> 0, missing |-> 0, unique |-> 0,
     nDate |-> 0, nNum |-> 0, nBoth |-> 0]

NonNull(series) == series.len - series.missing
TextCount(series) == NonNull(series) - series.nDate - series.nNum - series.nBoth
DateLike(series) == series.nDate + series.nBoth
NumberLike(series) == series.nNum + series.nBoth

\* The kinds of value present: values of different kinds are different values
KindsPresent(series) ==
    (IF series.nDate > 0 THEN 1 ELSE 0) + (IF series.nNum > 0 THEN 1 ELSE 0)
    + (IF series.nBoth > 0 THEN 1 ELSE 0) + (IF TextCount(series) > 0 THEN 1 ELSE 0)

WellFormedColumn(c) ==
    /\ c.missing <= c.len
    /\ TextCount(c) >= 0
    /\ c.unique <= NonNull(c)
    /\ c.unique >= KindsPresent(c)
    /\ c.dtype = "numeric" => (c.nNum = NonNull(c))

\* Columns of small tables, of any composition
SmallColumns ==
    {c \in [dtype : {"numeric", "object"}, len : 1..SmallRows, missing : 0..SmallRows,
            unique : 0..SmallRows, nDate : 0..SmallRows, nNum : 0..SmallRows,
            nBoth : 0..SmallRows] : WellFormedColumn(c)}

\* Columns of larger tables, whose non-missing values are all of one kind
LargeColumns ==
    {c \in UNION {[dtype : {"numeric", "object"}, len : {n}, missing : 0..MaxMissing,
                   unique : 1..n, nDate : {0, n - m}, nNum : {0, n - m}, nBoth : {0, n - m}]
                  : n \in LargeRowsFrom..MaxRows, m \in 0..MaxMissing} :
        /\ WellFormedColumn(c)
        /\ KindsPresent(c) = 1}

\* Columns of text longer than the sample the detector draws: date-like values
\* and values that are neither dates nor numbers, none missing
SampledColumns ==
    {c \in UNION {[dtype : {"object"}, len : {n}, missing : {0}, unique : 1..n,
                   nDate : 0..n, nNum : {0}, nBoth : {0}]
                  : n \in (SampleMax + 1)..(SampleMax + MaxOverSample)} :
        WellFormedColumn(c)}

Columns == SmallColumns \cup LargeColumns \cup SampledColumns

Min(a, b) == IF a <= b THEN a ELSE b
Max(a, b) == IF a >= b THEN a ELSE b

\* non_null.sample(min(100, len(non_null))): the size of the sample, and how
\* many of the k values of interest a sample of that size can hold
SampleSize(series) == Min(SampleMax, NonNull(series))
Draws(series, k) ==
    Max(0, SampleSize(series) - (NonNull(series) - k))..Min(SampleSize(series), k)

\* app.py:388-426: matches is the number of sampled values that match one of
\* the date patterns.  success_rate > 0.8, as matches / len(sample) > 80 / 100.
is_date_type(series, matches) ==
    IF NonNull(series) = 0 THEN FALSE
    ELSE IF series.dtype = "numeric" THEN FALSE
    ELSE matches * 100 > DateRatePercent * SampleSize(series)

\* app.py:428-446: converted is the number of sampled values pd.to_numeric
\* converts.  success_rate > 0.9.
is_numeric_type(series, converted) ==
    IF NonNull(series) = 0 THEN FALSE
    ELSE IF series.dtype = "numeric" THEN TRUE
    ELSE converted * 100 > NumericRatePercent * SampleSize(series)

\* app.py:448-452: unique_count < min(total_rows * 0.5, 20), both sides doubled
is_categorical_type_inclusive(series, total_rows) ==
    2 * series.unique <= Min(total_rows, 2 * CategoricalCap)

is_categorical_type_of_non_missing(series, total_rows) ==
    2 * series.unique < Min(NonNull(series), 2 * CategoricalCap)

is_categorical_type(series, total_rows) ==
    2 * series.unique < Min(total_rows, 2 * CategoricalCap)

\* The order of the older revision, .ipynb_checkpoints/app-checkpoint.py:431-441:
\* numeric before categorical
detect_variable_type_numeric_first(series, total_rows, matches, converted) ==
    IF is_date_type(series, matches) THEN "date"
    ELSE IF is_numeric_type(series, converted) THEN "numeric"
    ELSE IF is_categorical_type(series, total_rows) THEN "categorical"
    ELSE "text"

detect_variable_type_categorical_first(series, total_rows, matches, converted) ==
    IF is_categorical_type(series, total_rows) THEN "categorical"
    ELSE IF is_date_type(series, matches) THEN "date"
    ELSE IF is_numeric_type(series, converted) THEN "numeric"
    ELSE "text"

\* app.py:454-468
detect_variable_type(series, total_rows, matches, converted) ==
    IF is_date_type(series, matches) THEN "date"
    ELSE IF is_categorical_type(series, total_rows) THEN "categorical"
    ELSE IF is_numeric_type(series, converted) THEN "numeric"
    ELSE "text"

\* app.py:691: total_rows = len(df), the rows of the table, which is the
\* length of each of its columns
total_rows_non_missing(series) == NonNull(series)

total_rows_of(series) == series.len

NoDetection ==
    [total_rows |-> 0, detected_type |-> "none", matches |-> 0, converted |-> 0,
     missingness |-> 0, unique_count |-> 0]

\* app.py:694-718: the entry analyze_variables builds for a column; matches
\* and converted are what the two samples of the detector drew.
VariableEntry(series, matches, converted) ==
    [total_rows |-> total_rows_of(series),
     detected_type |-> detect_variable_type(series, total_rows_of(series),
                                            matches, converted),
     matches |-> matches,
     converted |-> converted,
     missingness |-> series.missing,
     unique_count |-> series.unique]

\* analyze_variables on the column (a request may be repeated)
DetectVariable ==
    /\ \E matches \in Draws(column, DateLike(column)),
          converted \in Draws(column, NumberLike(column)) :
         detection' = VariableEntry(column, matches, converted)
    /\ UNCHANGED <<column, serverVars, testVars, otherVars, extraVars>>

-----------------------------------------------------------------------------
(* The summary computer: app.py:483-680 *)

\* Bound on the columns of the model
MaxSeriesLen == 3

\* The entries of a column: missing, or one of a few values, which are two
\* dates, two numbers and a word.
NA == "NA"
DateValues == {"2024-01-15", "2024-03-02"}
NumberValues == {"7", "8"}
TextValues == {"abc"}
Values == DateValues \cup NumberValues \cup TextValues

SeriesOfLen(n) == [1..n -> Values \cup {NA}]
AllSeries == UNION {SeriesOfLen(n) : n \in 1..MaxSeriesLen}

\* Sequence helpers
RECURSIVE SelectSeq2(_, _)
SelectSeq2(s, keep) ==
    IF s = << >> THEN << >>
    ELSE IF Head(s) \in keep THEN <<Head(s)>> \o SelectSeq2(Tail(s), keep)
    ELSE SelectSeq2(Tail(s), keep)

Range(s) == {s[i] : i \in DOMAIN s}
Count(s, v) == Cardinality({i \in DOMAIN s : s[i] = v})

\* series.isna().sum(), series.dropna(), series.nunique()
isna_sum(s) == Count(s, NA)
dropna(s) == SelectSeq2(s, Values)
nunique(s) == Cardinality(Range(s) \ {NA})

\* pd.api.types.is_numeric_dtype: a column read from a file has a numeric
\* dtype when each of its entries is a number or missing
is_numeric_dtype(s) == Range(s) \subseteq (NumberValues \cup {NA})

\* pd.to_numeric(non_null, errors='coerce').dropna()
to_numeric(s) == SelectSeq2(s, NumberValues)

\* The number a value converts to
NumberOf(v) == IF v = "7" THEN 7 ELSE 8

\* pd.to_datetime(non_null, errors='coerce').dropna(): the entries that
\* parse.  A number of a numeric column is a count of nanoseconds since the
\* epoch; whether a number found among strings parses depends on the
\* version of the library, so it is an input (lenient).
Parsable(s, lenient) ==
    IF is_numeric_dtype(s) \/ lenient THEN DateValues \cup NumberValues ELSE DateValues
to_datetime(s, lenient) == SelectSeq2(s, Parsable(s, lenient))

\* The day a parsed entry denotes, as the number yyyymmdd
DayOf(v) ==
    CASE v = "2024-01-15" -> 20240115
      [] v = "2024-03-02" -> 20240302
      [] OTHER -> 19700101

SeqMin(s) == CHOOSE x \in Range(s) : \A y \in Range(s) : x <= y
SeqMax(s) == CHOOSE x \in Range(s) : \A y \in Range(s) : x >= y

\* round(100 * part / whole, 2), in hundredths of a percent
Percent2(part, whole) == (20000 * part + whole) \div (2 * whole)

\* A summary, with the keys of the dictionary the function returns
NoSummary ==
    [type |-> "none", keys |-> {}, missing_count |-> 0, missing_percent |-> 0,
     count |-> 0, min |-> "null", max |-> "null", sd |-> "null",
     unique_count |-> 0, frequency_table |-> << >>,
     min_date |-> "null", max_date |-> "null", raw |-> << >>]

NumericKeys ==
    {"mean", "sd", "median", "q1", "q3", "min", "max", "missing_count",
     "missing_percent", "kurtosis", "skewness", "shapiro_stat", "shapiro_p",
     "jb_stat", "jb_p"}
CategoricalKeys == {"unique_count", "missing_count", "missing_percent", "frequency_table"}
DateKeys == {"min_date", "max_date", "missing_count", "missing_percent", "raw_dates"}
TextKeys == {"missing_count", "missing_percent", "raw_values"}

\* app.py:483-579.  Of the statistics the model keeps the number of values
\* they are computed from, min, max, and sd, which Series.std() leaves
\* undefined (NaN, returned as null by safe_float) for a single value.
compute_numeric_summary_counting_unparsed(s) ==
    LET non_null == to_numeric(dropna(s))
    IN  [NoSummary EXCEPT
            !.keys = NumericKeys,
            !.missing_count = Len(s) - Len(non_null),
            !.missing_percent = Percent2(Len(s) - Len(non_null), Len(s)),
            !.count = Len(non_null)]

compute_numeric_summary(s) ==
    LET non_null == dropna(s)
        numbers == IF is_numeric_dtype(non_null) THEN non_null ELSE to_numeric(non_null)
        nulls == [NoSummary EXCEPT !.keys = NumericKeys, !.missing_count = isna_sum(s)]
    IN  IF Len(non_null) = 0 THEN [nulls EXCEPT !.missing_percent = 10000]
        ELSE IF Len(numbers) = 0
            THEN [nulls EXCEPT !.missing_percent = Percent2(isna_sum(s), Len(s))]
        ELSE [nulls EXCEPT
                !.missing_percent = Percent2(isna_sum(s), Len(s)),
                !.count = Len(numbers),
                !.min = SeqMin([i \in DOMAIN numbers |-> NumberOf(numbers[i])]),
                !.max = SeqMax([i \in DOMAIN numbers |-> NumberOf(numbers[i])]),
                !.sd = IF Len(numbers) < 2 THEN "null" ELSE "value"]

\* series.value_counts(): the distinct non-missing values, most frequent
\* first; the order among values of equal count is left to the library.
ValueCountOrders(s) ==
    {order \in [1..nunique(s) -> Range(s) \ {NA}] :
        /\ Range(order) = Range(s) \ {NA}
        /\ \A i, j \in DOMAIN order : i < j => Count(s, order[i]) >= Count(s, order[j])}

\* app.py:581-607, with percentages of all the rows instead of the non-missing
compute_categorical_summary_of_all_rows(s, order) ==
    [NoSummary EXCEPT
        !.keys = CategoricalKeys,
        !.missing_count = isna_sum(s),
        !.missing_percent = Percent2(isna_sum(s), Len(s)),
        !.unique_count = nunique(s),
        !.frequency_table =
            [i \in DOMAIN order |->
                [name |-> order[i], count |-> Count(s, order[i]),
                 percentage |-> Percent2(Count(s, order[i]), Len(s))]]]

\* app.py:581-607
compute_categorical_summary(s, order) ==
    LET missing_count == isna_sum(s)
        total_non_missing == Len(s) - missing_count
    IN  [NoSummary EXCEPT
            !.keys = CategoricalKeys,
            !.missing_count = missing_count,
            !.missing_percent = Percent2(missing_count, Len(s)),
            !.unique_count = nunique(s),
            !.frequency_table =
                [i \in DOMAIN order |->
                    [name |-> order[i], count |-> Count(s, order[i]),
                     percentage |-> IF total_non_missing > 0
                                    THEN Percent2(Count(s, order[i]), total_non_missing)
                                    ELSE 0]]]

\* app.py:609-657: raw holds raw_dates
compute_date_summary(s, lenient) ==
    LET dates == to_datetime(dropna(s), lenient)
        days == [i \in DOMAIN dates |-> DayOf(dates[i])]
        nulls == [NoSummary EXCEPT
                    !.keys = DateKeys,
                    !.missing_count = isna_sum(s),
                    !.missing_percent = Percent2(isna_sum(s), Len(s))]
    IN  IF Len(dropna(s)) = 0 \/ Len(dates) = 0 THEN nulls
        ELSE [nulls EXCEPT !.min_date = SeqMin(days), !.max_date = SeqMax(days),
                           !.raw = days]

\* app.py:659-680: raw holds raw_values
compute_text_summary(s) ==
    [NoSummary EXCEPT
        !.keys = TextKeys,
        !.missing_count = isna_sum(s),
        !.missing_percent = Percent2(isna_sum(s), Len(s)),
        !.raw = dropna(s)]

\* The summary-statistics requests of the model: the stored table has the
\* one column "v"; a request names it or the unknown column "zz", declares a
\* type (one of the four, or one that is none of them) and, in the batch
\* endpoint, supplies a date rounding for the variable.
ColumnNames == {"v"}
RequestNames == {"v", "zz"}
DeclaredTypes == {"numeric", "categorical", "date", "text", "boolean"}
Roundings == {"year", "month", "week", "day"}

NoSummaryReq == [endpoint |-> "none", name |-> "", var_type |-> "", rounding |-> ""]
SummaryRequests ==
    [endpoint : {"batch", "single"}, name : RequestNames, var_type : DeclaredTypes,
     rounding : Roundings]

NoSummaryResp == [status |-> 0, detail |-> "", summaries |-> << >>]

\* The column as the type detector sees it
ColumnOf(s) ==
    [dtype |-> IF is_numeric_dtype(s) THEN "numeric" ELSE "object",
     len |-> Len(s),
     missing |-> isna_sum(s),
     unique |-> nunique(s),
     nDate |-> Len(SelectSeq2(s, DateValues)),
     nNum |-> Len(SelectSeq2(s, NumberValues)),
     nBoth |-> 0]

DetectedType(s) ==
    detect_variable_type(ColumnOf(s), Len(s), DateLike(ColumnOf(s)), NumberLike(ColumnOf(s)))

\* The summary of the type the detector assigns, whatever the client declared
SummaryOfDetected(s, var_type, lenient, order) ==
    CASE DetectedType(s) = "numeric" -> [compute_numeric_summary(s) EXCEPT !.type = "numeric"]
      [] DetectedType(s) = "categorical" ->
            [compute_categorical_summary(s, order) EXCEPT !.type = "categorical"]
      [] DetectedType(s) = "date" -> [compute_date_summary(s, lenient) EXCEPT !.type = "date"]
      [] OTHER -> [compute_text_summary(s) EXCEPT !.type = "text"]

\* app.py:762-777 and 815-828: the if/elif chain on the declared type;
\* NoSummary when it is none of the four
SummaryOf(s, var_type, lenient, order) ==
    CASE var_type = "numeric" -> [compute_numeric_summary(s) EXCEPT !.type = "numeric"]
      [] var_type = "categorical" ->
            [compute_categorical_summary(s, order) EXCEPT !.type = "categorical"]
      [] var_type = "date" -> [compute_date_summary(s, lenient) EXCEPT !.type = "date"]
      [] var_type = "text" -> [compute_text_summary(s) EXCEPT !.type = "text"]
      [] OTHER -> NoSummary

\* app.py:743-793: get_summary_statistics on a request of one variable.  The
\* rounding of the request is read (line 745) and not used.
SummariseBatch(s, request, lenient, order) ==
    LET http == get_summary_statistics(TRUE, "ok", FALSE)
        summary == SummaryOf(s, request.var_type, lenient, order)
        kept == IF request.name \in ColumnNames /\ summary # NoSummary
                THEN {request.name} ELSE {}
    IN  [status |-> http.status, detail |-> http.detail,
         summaries |-> [n \in kept |-> summary]]

\* app.py:796-845: get_single_variable_summary
SummariseSingle(s, request, lenient, order) ==
    LET summary == SummaryOf(s, request.var_type, lenient, order)
        check == IF request.name \notin ColumnNames THEN "no_variable"
                 ELSE IF summary = NoSummary THEN "unknown_type"
                 ELSE "ok"
        http == get_single_variable_summary(TRUE, check, FALSE)
    IN  [status |-> http.status, detail |-> http.detail,
         summaries |-> [n \in (IF check = "ok" THEN {request.name} ELSE {}) |-> summary]]

BatchSummary ==
    /\ summary_req.endpoint = "batch"
    /\ \E lenient \in BOOLEAN, order \in ValueCountOrders(variable) :
         summary_resp' = SummariseBatch(variable, summary_req, lenient, order)
    /\ UNCHANGED <<variable, summary_req, serverVars, detectVars, testVars, batchVars, regressionVars, extraVars>>

SingleSummary ==
    /\ summary_req.endpoint = "single"
    /\ \E lenient \in BOOLEAN, order \in ValueCountOrders(variable) :
         summary_resp' = SummariseSingle(variable, summary_req, lenient, order)
    /\ UNCHANGED <<variable, summary_req, serverVars, detectVars, testVars, batchVars, regressionVars, extraVars>>

SummaryIdle ==
    /\ variable = << >>
    /\ summary_req = NoSummaryReq
    /\ summary_resp = NoSummaryResp

-----------------------------------------------------------------------------
(* Operations over several columns: app.py:268-386 and 733-793 *)

\* Bound on the columns a request names
MaxBatch == 3

\* What happens to one column of a request:
\*   "ok"           its result is computed
\*   "unknown_name" the table has no such column (for analyze: or it is not numeric)
\*   "unknown_type" the declared type is none of the four (batch summary only)
\*   "too_few"      it has too few non-missing values for the analysis (analyze only)
\*   "raises"       its computation raises
SummaryConditions == {"ok", "unknown_name", "unknown_type", "raises"}
AnalyzeConditions == {"ok", "unknown_name", "too_few", "raises"}

NoBatch == [operation |-> "none", columns |-> << >>]
Batches ==
    UNION {[operation : {"summary"}, columns : [1..n -> SummaryConditions]]
           \cup [operation : {"descriptive", "distribution"},
                 columns : [1..n -> AnalyzeConditions]]
           : n \in 1..MaxBatch}

NoBatchResp == [status |-> 0, detail |-> "", included |-> {}]

Computed(columns) == {i \in DOMAIN columns : columns[i] = "ok"}
Raising(columns) == {i \in DOMAIN columns : columns[i] = "raises"}

\* app.py:751-793: the loop of get_summary_statistics skips unknown names and
\* unknown types; an exception of a summary function leaves the loop and is
\* answered by the handler's except clause.
batch_summaries(columns) ==
    IF Raising(columns) # {}
    THEN [status |-> get_summary_statistics(TRUE, "ok", TRUE).status,
          detail |-> get_summary_statistics(TRUE, "ok", TRUE).detail,
          included |-> {}]
    ELSE [status |-> 200, detail |-> "", included |-> Computed(columns)]

\* app.py:288-291: the columns analyze_data keeps
numeric_columns(columns) == {i \in DOMAIN columns : columns[i] # "unknown_name"}

\* app.py:326-343 under analyze_data: no column's computation is guarded
perform_descriptive_analysis(columns) ==
    IF numeric_columns(columns) = {}
    THEN [status |-> analyze_data(TRUE, "no_numeric", FALSE).status,
          detail |-> analyze_data(TRUE, "no_numeric", FALSE).detail,
          included |-> {}]
    ELSE IF Raising(columns) # {}
    THEN [status |-> analyze_data(TRUE, "ok", TRUE).status,
          detail |-> analyze_data(TRUE, "ok", TRUE).detail,
          included |-> {}]
    ELSE [status |-> 200, detail |-> "", included |-> Computed(columns)]

\* app.py:363-386 under analyze_data: each column's computation is in a try
\* block of its own
perform_distribution_analysis(columns) ==
    IF numeric_columns(columns) = {}
    THEN [status |-> analyze_data(TRUE, "no_numeric", FALSE).status,
          detail |-> analyze_data(TRUE, "no_numeric", FALSE).detail,
          included |-> {}]
    ELSE [status |-> 200, detail |-> "", included |-> Computed(columns)]

SummaryBatch ==
    /\ batch.operation = "summary"
    /\ batch_resp' = batch_summaries(batch.columns)
    /\ UNCHANGED <<batch, serverVars, detectVars, testVars, summaryVars, regressionVars, extraVars>>

DescriptiveAnalysis ==
    /\ batch.operation = "descriptive"
    /\ batch_resp' = perform_descriptive_analysis(batch.columns)
    /\ UNCHANGED <<batch, serverVars, detectVars, testVars, summaryVars, regressionVars, extraVars>>

DistributionAnalysis ==
    /\ batch.operation = "distribution"
    /\ batch_resp' = perform_distribution_analysis(batch.columns)
    /\ UNCHANGED <<batch, serverVars, detectVars, testVars, summaryVars, regressionVars, extraVars>>

BatchIdle == batch = NoBatch /\ batch_resp = NoBatchResp

-----------------------------------------------------------------------------
(* The regression runners: services/regression_runner.py, routes/regression.py *)

\* Bounds on the regression requests of the model
MaxPredictors == 2
MaxLevels == 3
MaxValid == 5
MaxClasses == 3

\* An independent variable as prepare_regression_data reads it: numeric when
\* every non-missing value converts to a number (and there is one), else
\* categorical with some number of distinct values (levels)
Predictors ==
    [kind : {"numeric"}, levels : {0}] \cup [kind : {"categorical"}, levels : 0..MaxLevels]

\* One dummy for every category, none dropped
ColumnsOfEveryLevel(predictor) ==
    IF predictor.kind = "numeric" THEN 1 ELSE predictor.levels

\* regression_runner.py:31-51: the columns of X an independent variable
\* gives: itself, or its dummies with the first category dropped
ColumnsOf(predictor) ==
    IF predictor.kind = "numeric" THEN 1
    ELSE IF predictor.levels = 0 THEN 0
    ELSE predictor.levels - 1

RECURSIVE DesignColumns(_)
DesignColumns(independent) ==
    IF independent = << >> THEN 0
    ELSE ColumnsOf(Head(independent)) + DesignColumns(Tail(independent))

\* A request on a stored table: the independent variables, the number of rows
\* left once the rows with a missing value are dropped (valid), and the
\* number of distinct non-missing values of the dependent variable (classes).
\* A row that is left has a value of the dependent variable, and no row is
\* left when X has no column.
NoSample == [regression_type |-> "none", independent |-> << >>, valid |-> 0, classes |-> 0]
Samples ==
    {r \in UNION {[regression_type : {"linear", "logistic"},
                   independent : [1..n -> Predictors],
                   valid : 0..MaxValid,
                   classes : 0..MaxClasses] : n \in 1..MaxPredictors} :
        /\ r.valid >= 1 => r.classes >= 1
        /\ DesignColumns(r.independent) = 0 => r.valid = 0}

NoFit ==
    [regression_type |-> "none", status |-> 0, detail |-> "", stage |-> "none",
     n_coefficients |-> 0, n_predictors |-> 0, encoding |-> {}]

Rejected(type, text) ==
    [NoFit EXCEPT !.regression_type = type, !.stage = "rejected", !.detail = text]
Failed(type) ==
    [NoFit EXCEPT !.regression_type = type, !.stage = "failed", !.detail = "exception text"]

\* regression_runner.py:71-169.  fits is whether the library calls after the
\* checks (OLS, the diagnostics, X.drop('const')) return.
run_linear_regression(r, fits) ==
    IF r.valid = 0
    THEN Rejected("linear", "Error in linear regression: No valid data after removing missing values")
    ELSE IF r.valid < Len(r.independent) + 2
    THEN Rejected("linear", "Error in linear regression: Not enough samples")
    ELSE IF ~fits THEN Failed("linear")
    ELSE [NoFit EXCEPT
            !.regression_type = "linear",
            !.stage = "fitted",
            !.n_coefficients = 1 + DesignColumns(r.independent),
            !.n_predictors = Len(r.independent)]

\* regression_runner.py:172-319, accepting any number of classes above one
run_logistic_regression_any_classes(r, fits) ==
    IF r.classes < 2
    THEN Rejected("logistic", "Error in logistic regression: Logistic regression requires binary outcome")
    ELSE IF r.valid = 0
    THEN Rejected("logistic", "Error in logistic regression: No valid data after removing missing values")
    ELSE IF ~fits THEN Failed("logistic")
    ELSE [NoFit EXCEPT
            !.regression_type = "logistic",
            !.stage = "fitted",
            !.n_coefficients = 1 + DesignColumns(r.independent),
            !.n_predictors = Len(r.independent),
            !.encoding = 0..(r.classes - 1)]

\* regression_runner.py:172-319.  LabelEncoder numbers the classes from 0.
run_logistic_regression(r, fits) ==
    IF r.classes # 2
    THEN Rejected("logistic", "Error in logistic regression: Logistic regression requires binary outcome")
    ELSE IF r.valid = 0
    THEN Rejected("logistic", "Error in logistic regression: No valid data after removing missing values")
    ELSE IF ~fits THEN Failed("logistic")
    ELSE [NoFit EXCEPT
            !.regression_type = "logistic",
            !.stage = "fitted",
            !.n_coefficients = 1 + DesignColumns(r.independent),
            !.n_predictors = Len(r.independent),
            !.encoding = 0..(r.classes - 1)]

\* routes/regression.py:36-78: the route on a stored table, with both
\* variables named
RegressionResponse(outcome) ==
    [outcome EXCEPT !.status = regression_route(TRUE, "ok", outcome.stage # "fitted").status]

linear_regression ==
    /\ sample.regression_type = "linear"
    /\ \E fits \in BOOLEAN : fit' = RegressionResponse(run_linear_regression(sample, fits))
    /\ UNCHANGED <<sample, serverVars, detectVars, testVars, summaryVars, batchVars, extraVars>>

logistic_regression ==
    /\ sample.regression_type = "logistic"
    /\ \E fits \in BOOLEAN : fit' = RegressionResponse(run_logistic_regression(sample, fits))
    /\ UNCHANGED <<sample, serverVars, detectVars, testVars, summaryVars, batchVars, extraVars>>

RegressionIdle == sample = NoSample /\ fit = NoFit

-----------------------------------------------------------------------------
(* The preview of upload_file and load_sample_data *)

MaxPreviewRows == 14

\* app.py:227-230 and 141-144
PreviewAllUpTo == 10
PreviewEnd == 5

\* The cells of a row, by what the conversion loop distinguishes
CellKinds == {"missing", "float", "int", "str"}

NoTable == [rows |-> 0, cell |-> "none"]

\* A parsed table: its number of rows and the kind of cell its rows hold
PreviewTables == [rows : 0..MaxPreviewRows, cell : CellKinds]

\* The rows of the dataframe, in file order; a row is known by its position
\* in the file.
RowsOf(t) == [i \in 1..t.rows |-> i]

\* DataFrame.head(n): the first n rows, all of them when there are fewer
head(df, n) == SubSeq(df, 1, Min(n, Len(df)))

\* A tail that starts one row early
tail_one_early(df, n) == SubSeq(df, Max(1, Len(df) - n), Len(df))

\* DataFrame.tail(n): the last n rows, all of them when there are fewer
tail(df, n) == SubSeq(df, Max(1, Len(df) - n + 1), Len(df))

\* app.py:227-230 and 141-144
preview_df(df) ==
    IF Len(df) <= PreviewAllUpTo THEN df
    ELSE head(df, PreviewEnd) \o tail(df, PreviewEnd)

\* app.py:235-245 and 149-159: what a cell becomes in the preview
row_data(cell) ==
    CASE cell = "missing" -> "None"
      [] cell = "float" -> "round4"
      [] cell = "int" -> "int"
      [] OTHER -> "str"

\* app.py:232-246 and 146-160: one entry for each row of preview_df
preview(t) ==
    LET rows == preview_df(RowsOf(t))
    IN  [i \in 1..Len(rows) |-> [row |-> rows[i], data |-> row_data(t.cell)]]

NoPreviewResp == [endpoint |-> "none", status |-> 0, rows |-> 0, preview |-> << >>]

\* app.py:205-206, 249-256 (119-120, 163-170): an empty table is answered
\* 400, any other table with its row count and its preview
PreviewResponse(ep, t) ==
    IF t.rows = 0 THEN [endpoint |-> ep, status |-> 400, rows |-> 0, preview |-> << >>]
    ELSE [endpoint |-> ep, status |-> 200, rows |-> t.rows, preview |-> preview(t)]

UploadPreview ==
    /\ preview_resp' = PreviewResponse("upload", preview_table)
    /\ UNCHANGED <<preview_table, besidesPreview>>

LoadSamplePreview ==
    /\ preview_resp' = PreviewResponse("load-sample", preview_table)
    /\ UNCHANGED <<preview_table, besidesPreview>>

PreviewIdle == preview_table = NoTable /\ preview_resp = NoPreviewResp

-----------------------------------------------------------------------------
(* The interpretation strings of services/test_runner.py *)

\* The numbers of the model, written as Python prints them, and their value
\* in ten-thousandths
Decimal ==
    [d \in {"-1.0", "-0.51", "-0.5", "0.0", "0.0009", "0.001", "0.0499", "0.05",
            "0.5", "0.51", "1.0"} |->
        CASE d = "-1.0" -> 0 - 10000
          [] d = "-0.51" -> 0 - 5100
          [] d = "-0.5" -> 0 - 5000
          [] d = "0.0" -> 0
          [] d = "0.0009" -> 9
          [] d = "0.001" -> 10
          [] d = "0.0499" -> 499
          [] d = "0.05" -> 500
          [] d = "0.5" -> 5000
          [] d = "0.51" -> 5100
          [] OTHER -> 10000]

\* a < b on Python floats: every comparison with NaN is False
Less(a, b) ==
    /\ a \in DOMAIN Decimal
    /\ b \in DOMAIN Decimal
    /\ Decimal[a] < Decimal[b]

\* What the scipy function of a test returns: a p-value, and for the
\* correlations a coefficient.  Either is NaN where the statistic is undefined
\* (a group of one value, a constant variable).
PValues == {"nan", "0.0", "0.0009", "0.001", "0.0499", "0.05", "1.0"}
Coefficients == {"nan", "-1.0", "-0.51", "-0.5", "0.0", "0.5", "0.51", "1.0"}

NoStatistic == [p_value |-> "none", correlation |-> "none"]
Statistics == [p_value : PValues, correlation : Coefficients]

\* The tests whose interpretation compares safe_float(p_value) ...
SafeFloatTests == {"ttest", "paired_ttest", "anova", "kruskal_wallis", "chi_square"}
\* ... the tests whose interpretation compares p_value itself ...
RawTests == {"mann_whitney", "wilcoxon_signed_rank"}
\* ... and the correlations
CorrelationTests == {"pearson_correlation", "spearman_correlation", "kendall_correlation"}

Significant(test) ==
    CASE test \in {"anova", "kruskal_wallis"} ->
           "Significant difference between groups detected (p < 0.05)"
      [] test = "chi_square" ->
           "Significant association between variables detected (p < 0.05)"
      [] OTHER -> "Significant difference detected (p < 0.05)"

NotSignificant(test) ==
    CASE test \in {"anova", "kruskal_wallis"} ->
           "No significant difference between groups (p >= 0.05)"
      [] test = "chi_square" ->
           "No significant association between variables (p >= 0.05)"
      [] OTHER -> "No significant difference (p >= 0.05)"

\* test_runner.py:120, 205, 287, 427, 466
interpretation_safe_float(test, p_value) ==
    IF Less(safe_float(p_value), "0.05") THEN Significant(test) ELSE NotSignificant(test)

\* test_runner.py:335, 377
interpretation_raw(test, p_value) ==
    IF Less(p_value, "0.05") THEN Significant(test) ELSE NotSignificant(test)

\* test_runner.py:510-513, 557-560, 593-596
interpretation_correlation(p_value_safe, correlation_safe) ==
    IF Less(p_value_safe, "0.001") /\ Less("0.5", correlation_safe)
    THEN "Strong positive correlation detected (p < 0.001)"
    ELSE IF Less(p_value_safe, "0.001") /\ Less(correlation_safe, "-0.5")
    THEN "Strong negative correlation detected (p < 0.001)"
    ELSE IF Less(p_value_safe, "0.05")
    THEN "Moderate correlation detected (p < 0.05)"
    ELSE "No significant correlation (p >= 0.05)"

NoInterpreted ==
    [test |-> "none", p_value |-> "none", correlation |-> "none", interpretation |-> ""]

\* The part of a test's result that the interpretation is about: the
\* statistics as reported and the interpretation string
Interpreted(test, p, r, text) ==
    [test |-> test, p_value |-> p, correlation |-> r, interpretation |-> text]

\* test_runner.py:103-120, 188-205, 266-287, 420-427, 459-466
InterpretSafeFloat(test) ==
    /\ interpreted' = Interpreted(test, safe_float(statistic.p_value), "none",
                                  interpretation_safe_float(test, statistic.p_value))
    /\ UNCHANGED <<statistic, besidesInterpret>>

\* test_runner.py:324-335, 366-377
InterpretRaw(test) ==
    /\ interpreted' = Interpreted(test, safe_float(statistic.p_value), "none",
                                  interpretation_raw(test, statistic.p_value))
    /\ UNCHANGED <<statistic, besidesInterpret>>

\* test_runner.py:495-514, 542-561, 581-597
InterpretCorrelation(test) ==
    /\ LET correlation_safe == safe_float(statistic.correlation)
           p_value_safe == safe_float(statistic.p_value)
       IN  interpreted' = Interpreted(test, p_value_safe, correlation_safe,
                              interpretation_correlation(p_value_safe, correlation_safe))
    /\ UNCHANGED <<statistic, besidesInterpret>>

InterpretIdle == statistic = NoStatistic /\ interpreted = NoInterpreted

-----------------------------------------------------------------------------
(* The paired and correlation tests: the values handed to the statistic *)

MaxPairRows == 3

\* A cell of the two variables: missing, a number (or text that parses as
\* one), or text that pd.to_numeric(errors='coerce') turns into NaN
PairCells == {"NA", "number", "text"}

NoPairs == << >>

\* The rows of the table, in order: the cells of var1 and var2
PairTables == UNION {[1..n -> [var1 : PairCells, var2 : PairCells]] : n \in 1..MaxPairRows}

\* df[[var1, var2]].dropna(): the rows (by position in the table) where
\* neither cell is missing
dropna_pairs(df) ==
    SelectSeq([i \in 1..Len(df) |-> i],
              LAMBDA i : df[i].var1 # "NA" /\ df[i].var2 # "NA")

NoArrays == [test |-> "none", raised |-> FALSE, var1_vals |-> << >>, var2_vals |-> << >>]

\* The two arrays a statistic is called with: for every element the row its
\* value was read from
Arrays(test, x, y) == [test |-> test, raised |-> FALSE, var1_vals |-> x, var2_vals |-> y]

\* An exception before the statistic is called
ArraysRaise(test) == [NoArrays EXCEPT !.test = test, !.raised = TRUE]

\* test_runner.py:132-139, 346-352: to_numeric(...).values keeps one element
\* per row of data_paired, NaN for text; valid_idx then masks both arrays
\* with the same rows.
paired_arrays(test, df) ==
    LET data_paired == dropna_pairs(df)
        valid_idx == SelectSeq(data_paired,
                        LAMBDA i : df[i].var1 = "number" /\ df[i].var2 = "number")
    IN  Arrays(test, valid_idx, valid_idx)

\* test_runner.py:477-483, 524-530, 571-577: to_numeric(...).dropna().values
\* drops the NaN of each variable on its own, before valid_idx is computed.
\* Arrays of different lengths raise in valid_idx (no broadcast) or in the
\* boolean indexing; arrays of equal length hold no NaN, so valid_idx keeps
\* every element.
correlation_arrays(test, df) ==
    LET data_clean == dropna_pairs(df)
        var1_vals == SelectSeq(data_clean, LAMBDA i : df[i].var1 = "number")
        var2_vals == SelectSeq(data_clean, LAMBDA i : df[i].var2 = "number")
    IN  IF Len(var1_vals) # Len(var2_vals) THEN ArraysRaise(test)
        ELSE Arrays(test, var1_vals, var2_vals)

paired_ttest ==
    /\ arrays' = paired_arrays("paired_ttest", pair_table)
    /\ UNCHANGED <<pair_table, besidesPairs>>

wilcoxon_signed_rank ==
    /\ arrays' = paired_arrays("wilcoxon_signed_rank", pair_table)
    /\ UNCHANGED <<pair_table, besidesPairs>>

pearson_correlation ==
    /\ arrays' = correlation_arrays("pearson_correlation", pair_table)
    /\ UNCHANGED <<pair_table, besidesPairs>>

spearman_correlation ==
    /\ arrays' = correlation_arrays("spearman_correlation", pair_table)
    /\ UNCHANGED <<pair_table, besidesPairs>>

kendall_correlation ==
    /\ arrays' = correlation_arrays("kendall_correlation", pair_table)
    /\ UNCHANGED <<pair_table, besidesPairs>>

PairIdle == pair_table = NoPairs /\ arrays = NoArrays

-----------------------------------------------------------------------------
(* prepare_histogram_data *)

MaxRange == 12
MaxHistGroups == 2

\* app.py:902, 910
MinBins == 10
SturgesMaxBins == 50
MaxBins == 100

\* The numbers of non-missing values of the model, with their cube root
\* (n ** (1/3)) and int(np.log2(n))
HistCounts == {0, 8, 27, 64}
CubeRoot(n) == CASE n = 8 -> 2 [] n = 27 -> 3 [] n = 64 -> 4 [] OTHER -> 0
IntLog2(n) == CASE n = 8 -> 3 [] n = 27 -> 4 [] n = 64 -> 6 [] OTHER -> 0

NoHistInput == [n |-> 0, data_range |-> 0, iqr |-> 0, dtype |-> "none", groups |-> 0]

\* The table as prepare_histogram_data reads it: how many values the numeric
\* variable has, their range and interquartile range (data_min is 0), the
\* dtype of the column, and the number of groups of group_var (-1: no
\* group_var).  A variable without values has no range.
HistInputs ==
    {h \in [n : HistCounts, data_range : 0..MaxRange, iqr : 0..MaxRange,
            dtype : {"int64", "float64"}, groups : (0 - 1)..MaxHistGroups] :
        /\ h.iqr <= h.data_range
        /\ h.n = 0 => h.data_range = 0}

\* A quotient num / den, den > 0
Ratio(num, den) == [num |-> num, den |-> den]

\* app.py:889-907: the bin width
bin_width(h) ==
    IF h.data_range = 0 THEN Ratio(1, 1)
    ELSE LET nbins == Max(MinBins, Min(IntLog2(h.n) + 1, SturgesMaxBins))
             rule == IF h.iqr > 0 THEN Ratio(2 * h.iqr, CubeRoot(h.n))
                     ELSE Ratio(h.data_range, nbins)
         IN  IF h.dtype = "int64" /\ rule.num < rule.den THEN Ratio(1, 1) ELSE rule

\* app.py:891, 909-910: the number of bins, which no trace carries
nbins(h) ==
    IF h.data_range = 0 THEN 1
    ELSE LET w == bin_width(h)
         IN  Max(MinBins, Min((h.data_range * w.den) \div w.num + 1, MaxBins))

\* app.py:921-925, 933-937
xbins(h) == [start |-> 0, end |-> h.data_range, size |-> bin_width(h)]

NoHistogram == [data |-> << >>, nbins |-> 0]

\* app.py:873-951: one trace for each group, or one trace for the variable.
\* nbins is the local variable of the function; the returned traces are data.
prepare_histogram_data(h) ==
    IF h.n = 0 THEN NoHistogram
    ELSE [data |-> IF h.groups >= 0
                   THEN [g \in 1..h.groups |-> [name |-> g, xbins |-> xbins(h)]]
                   ELSE <<[name |-> 0, xbins |-> xbins(h)]>>,
          nbins |-> nbins(h)]

NoDrawn == [drawn |-> FALSE, data |-> << >>, nbins |-> 0]

Histogram ==
    /\ histogram' = [drawn |-> TRUE] @@ prepare_histogram_data(hist_input)
    /\ UNCHANGED <<hist_input, besidesHistogram>>

HistogramIdle == hist_input = NoHistInput /\ histogram = NoDrawn

-----------------------------------------------------------------------------
(* compute_numeric_summary: the normality tests *)

MaxSmallCount == 6
MaxOverShapiro == 2

\* app.py:547, 555-558
ShapiroMin == 3
ShapiroMax == 5000

NoNumericInput == [n |-> 0, missing |-> 0, shapiro_raises |-> FALSE, jb_raises |-> FALSE]

\* A column as the normality tests read it: n values that are numbers,
\* `missing` missing values, and whether stats.shapiro / stats.jarque_bera
\* raise on the values
NumericInputs ==
    [n : (0..MaxSmallCount) \cup ((ShapiroMax - 1)..(ShapiroMax + MaxOverShapiro)),
     missing : 0..MaxMissing,
     shapiro_raises : BOOLEAN, jb_raises : BOOLEAN]

\* A sample that is the whole series
sample_of_whole(n, k) == n

\* Series.sample(k): k values drawn without replacement
sample_of(n, k) == k

NoNormality ==
    [computed |-> FALSE, basic |-> "null", missing_count |-> 0,
     shapiro |-> "null", shapiro_n |-> 0, jb |-> "null"]

\* app.py:486-527: no numeric value, every statistic is null
NullSummary(c) == [NoNormality EXCEPT !.computed = TRUE, !.missing_count = c.missing]

\* app.py:546-570: shapiro_stat and shapiro_p, and the number of values the
\* test was run on
shapiro_fields(c) ==
    IF ShapiroMin <= c.n /\ c.n <= ShapiroMax
    THEN IF c.shapiro_raises THEN [shapiro |-> "null", shapiro_n |-> c.n]
         ELSE [shapiro |-> "value", shapiro_n |-> c.n]
    ELSE IF c.n > ShapiroMax
    THEN IF c.shapiro_raises THEN [shapiro |-> "null", shapiro_n |-> sample_of(c.n, ShapiroMax)]
         ELSE [shapiro |-> "value", shapiro_n |-> sample_of(c.n, ShapiroMax)]
    ELSE [shapiro |-> "null", shapiro_n |-> 0]

\* app.py:572-579: jb_stat and jb_p
jb_fields(c) == IF c.jb_raises THEN "null" ELSE "value"

\* app.py:483-579: the basic statistics, then the two tests, each in its own
\* try block
numeric_summary_fields(c) ==
    IF c.n = 0 THEN NullSummary(c)
    ELSE [computed |-> TRUE, basic |-> "value", missing_count |-> c.missing,
          shapiro |-> shapiro_fields(c).shapiro,
          shapiro_n |-> shapiro_fields(c).shapiro_n,
          jb |-> jb_fields(c)]

NumericSummary ==
    /\ normality' = numeric_summary_fields(numeric_input)
    /\ UNCHANGED <<numeric_input, besidesNormality>>

NormalityIdle == numeric_input = NoNumericInput /\ normality = NoNormality

-----------------------------------------------------------------------------
(* run_anova and run_kruskal_wallis: the statistics of each group *)

MaxStatGroups == 3
MaxStatGroupSize == 2

NoGroupTable == << >>

\* A table as the two runners read it: for the i-th distinct value of the
\* grouping variable (its label, in order of appearance) the number of its
\* rows whose numeric variable parses as a number.  The values of a group are
\* known by the label of the group.
GroupTables == UNION {[1..k -> 0..MaxStatGroupSize] : k \in 0..MaxStatGroups}

\* test_runner.py:222-226, 392-396: the values of every group that has some,
\* in the order of the labels; an element is the label its values belong to
group_data_of(sizes) == SelectSeq([i \in 1..Len(sizes) |-> i], LAMBDA i : sizes[i] > 0)

NoGroupStats ==
    [test |-> "none", raised |-> FALSE, exc |-> "", groups |-> << >>,
     entered |-> 0, df_between |-> 0]

GroupRaise(test, text) == [NoGroupStats EXCEPT !.test = test, !.raised = TRUE, !.exc = text]

\* test_runner.py:216-261 and 388-416: the group check, the statistic, and
\* then for the i-th label the statistics of group_data[i].  The last index
\* is out of range when a group was left out of group_data.
group_statistics(test, sizes) ==
    LET group_data == group_data_of(sizes)
    IN  IF Len(sizes) < 2 THEN GroupRaise(test, "requires at least 2 groups")
        ELSE IF Len(group_data) < 2 THEN GroupRaise(test, "at least two inputs are required")
        ELSE IF Len(group_data) < Len(sizes) THEN GroupRaise(test, "list index out of range")
        ELSE [test |-> test, raised |-> FALSE, exc |-> "",
              groups |-> [i \in 1..Len(sizes) |->
                            [label |-> i, values_of |-> group_data[i],
                             n |-> sizes[group_data[i]]]],
              entered |-> Len(group_data),
              df_between |-> Len(sizes) - 1]

anova_groups ==
    /\ group_stats' = group_statistics("anova", group_table)
    /\ UNCHANGED <<group_table, besidesGroupStats>>

kruskal_wallis_groups ==
    /\ group_stats' = group_statistics("kruskal_wallis", group_table)
    /\ UNCHANGED <<group_table, besidesGroupStats>>

GroupStatsIdle == group_table = NoGroupTable /\ group_stats = NoGroupStats

ExtraIdle ==
    /\ PreviewIdle
    /\ InterpretIdle
    /\ PairIdle
    /\ HistogramIdle
    /\ NormalityIdle
    /\ GroupStatsIdle

OtherIdle == SummaryIdle /\ BatchIdle /\ RegressionIdle

DetectIdle == column = NoColumn /\ detection = NoDetection
TestIdle == data = NoData /\ result = NoResult

-----------------------------------------------------------------------------
(* The server *)

Idle ==
    /\ column = NoColumn
    /\ detection = NoDetection
    /\ data = NoData
    /\ result = NoResult
    /\ OtherIdle
    /\ ExtraIdle

ServerInit ==
    /\ uploaded_files = << >>
    /\ issued = {}
    /\ reading = [name \in Filenames |-> 0]
    /\ nreq = 0
    /\ okUploads = 0
    /\ req = NoReq
    /\ resp = NoResp

Init == ServerInit /\ Idle

Next ==
    \/ \E name \in Filenames : UploadReject(name)
    \/ \E name \in Filenames : UploadBegin(name)
    \/ \E name \in Filenames, content \in Contents, previewRaises \in BOOLEAN :
         UploadFinish(name, content, previewRaises)
    \/ \E name \in Filenames, inside \in BOOLEAN, exists \in BOOLEAN :
         LoadSampleReject(name, inside, exists)
    \/ \E name \in Filenames, content \in Contents, previewRaises \in BOOLEAN :
         LoadSample(name, content, previewRaises)
    \/ \E known \in Lookups, o \in Outcomes(AnalyzeChecks) : Analyze(known, o[1], o[2])
    \/ \E known \in Lookups, raises \in BOOLEAN : AnalyzeVariables(known, raises)
    \/ \E known \in Lookups, o \in Outcomes(SummaryChecks) :
         SummaryStatistics(known, o[1], o[2])
    \/ \E known \in Lookups, o \in Outcomes(SingleChecks) :
         SingleVariableSummary(known, o[1], o[2])
    \/ \E known \in Lookups, o \in Outcomes(VisualizeChecks) : Visualize(known, o[1], o[2])
    \/ \E known \in Lookups, o \in Outcomes(TestChecks) : StatisticalTest(known, o[1], o[2])
    \/ \E known \in Lookups, o \in Outcomes(RegressionChecks) : Regression(known, o[1], o[2])

Spec == Init /\ [][Next]_vars

-----------------------------------------------------------------------------
(* The detector on one column *)

DetectInit ==
    /\ ServerInit
    /\ column \in Columns
    /\ detection = NoDetection
    /\ data = NoData
    /\ result = NoResult
    /\ OtherIdle
    /\ ExtraIdle

DetectNext == DetectVariable

DetectSpec == DetectInit /\ [][DetectNext]_vars

-----------------------------------------------------------------------------
(* The group tests on one table *)

TestInit ==
    /\ ServerInit
    /\ column = NoColumn
    /\ detection = NoDetection
    /\ data \in Tables
    /\ result = NoResult
    /\ OtherIdle
    /\ ExtraIdle

TestNext ==
    \/ ttest
    \/ anova
    \/ mann_whitney
    \/ kruskal_wallis

TestSpec == TestInit /\ [][TestNext]_vars

-----------------------------------------------------------------------------
(* The summary-statistics endpoints on one column *)

SummaryInit ==
    /\ ServerInit
    /\ DetectIdle
    /\ TestIdle
    /\ BatchIdle
    /\ RegressionIdle
    /\ variable \in AllSeries
    /\ summary_req \in SummaryRequests
    /\ summary_resp = NoSummaryResp
    /\ ExtraIdle

SummaryNext ==
    \/ BatchSummary
    \/ SingleSummary

SummarySpec == SummaryInit /\ [][SummaryNext]_vars

-----------------------------------------------------------------------------
(* The operations over several columns *)

BatchInit ==
    /\ ServerInit
    /\ DetectIdle
    /\ TestIdle
    /\ SummaryIdle
    /\ RegressionIdle
    /\ batch \in Batches
    /\ batch_resp = NoBatchResp
    /\ ExtraIdle

BatchNext ==
    \/ SummaryBatch
    \/ DescriptiveAnalysis
    \/ DistributionAnalysis

BatchSpec == BatchInit /\ [][BatchNext]_vars

-----------------------------------------------------------------------------
(* The regression routes on one table *)

RegressionInit ==
    /\ ServerInit
    /\ DetectIdle
    /\ TestIdle
    /\ SummaryIdle
    /\ BatchIdle
    /\ sample \in Samples
    /\ fit = NoFit
    /\ ExtraIdle

RegressionNext ==
    \/ linear_regression
    \/ logistic_regression

RegressionSpec == RegressionInit /\ [][RegressionNext]_vars

-----------------------------------------------------------------------------
(* The preview of one table *)

PreviewInit ==
    /\ ServerInit
    /\ DetectIdle
    /\ TestIdle
    /\ OtherIdle
    /\ InterpretIdle
    /\ PairIdle
    /\ HistogramIdle
    /\ NormalityIdle
    /\ GroupStatsIdle
    /\ preview_table \in PreviewTables
    /\ preview_resp = NoPreviewResp

PreviewNext ==
    \/ UploadPreview
    \/ LoadSamplePreview

PreviewSpec == PreviewInit /\ [][PreviewNext]_vars

-----------------------------------------------------------------------------
(* The interpretation of one test outcome *)

InterpretInit ==
    /\ ServerInit
    /\ DetectIdle
    /\ TestIdle
    /\ OtherIdle
    /\ PreviewIdle
    /\ PairIdle
    /\ HistogramIdle
    /\ NormalityIdle
    /\ GroupStatsIdle
    /\ statistic \in Statistics
    /\ interpreted = NoInterpreted

InterpretNext ==
    \/ \E test \in SafeFloatTests : InterpretSafeFloat(test)
    \/ \E test \in RawTests : InterpretRaw(test)
    \/ \E test \in CorrelationTests : InterpretCorrelation(test)

InterpretSpec == InterpretInit /\ [][InterpretNext]_vars

-----------------------------------------------------------------------------
(* The paired and correlation tests on one table *)

PairInit ==
    /\ ServerInit
    /\ DetectIdle
    /\ TestIdle
    /\ OtherIdle
    /\ PreviewIdle
    /\ InterpretIdle
    /\ HistogramIdle
    /\ NormalityIdle
    /\ GroupStatsIdle
    /\ pair_table \in PairTables
    /\ arrays = NoArrays

PairNext ==
    \/ paired_ttest
    \/ wilcoxon_signed_rank
    \/ pearson_correlation
    \/ spearman_correlation
    \/ kendall_correlation

PairSpec == PairInit /\ [][PairNext]_vars

-----------------------------------------------------------------------------
(* The histogram of one variable *)

HistogramInit ==
    /\ ServerInit
    /\ DetectIdle
    /\ TestIdle
    /\ OtherIdle
    /\ PreviewIdle
    /\ InterpretIdle
    /\ PairIdle
    /\ NormalityIdle
    /\ GroupStatsIdle
    /\ hist_input \in HistInputs
    /\ histogram = NoDrawn

HistogramNext == Histogram

HistogramSpec == HistogramInit /\ [][HistogramNext]_vars

-----------------------------------------------------------------------------
(* The normality tests of one numeric summary *)

NormalityInit ==
    /\ ServerInit
    /\ DetectIdle
    /\ TestIdle
    /\ OtherIdle
    /\ PreviewIdle
    /\ InterpretIdle
    /\ PairIdle
    /\ HistogramIdle
    /\ GroupStatsIdle
    /\ numeric_input \in NumericInputs
    /\ normality = NoNormality

NormalityNext == NumericSummary

NormalitySpec == NormalityInit /\ [][NormalityNext]_vars

-----------------------------------------------------------------------------
(* The group statistics of ANOVA and Kruskal-Wallis on one table *)

GroupStatsInit ==
    /\ ServerInit
    /\ DetectIdle
    /\ TestIdle
    /\ OtherIdle
    /\ PreviewIdle
    /\ InterpretIdle
    /\ PairIdle
    /\ HistogramIdle
    /\ NormalityIdle
    /\ group_table \in GroupTables
    /\ group_stats = NoGroupStats

GroupStatsNext ==
    \/ anova_groups
    \/ kruskal_wallis_groups

GroupStatsSpec == GroupStatsInit /\ [][GroupStatsNext]_vars

-----------------------------------------------------------------------------
(* Claims about the store and the status of the responses (Spec) *)

IdEndpoints ==
    {"analyze", "analyze-variables", "summary-statistics", "summary-statistics-variable",
     "visualize", "statistical-tests", "regression"}

\* A well-formed file: its bytes are in the format its name announces (the
\* name compared without regard to case, as the extension check does) and
\* encode a table of at least one row and one column.
WellFormed(name, content) ==
    /\ LoadDataframeLower(name, content).ok
    /\ ~Empty(Table(content))

\* C1: every upload of a well-formed file whose name passes the extension
\* check is answered 200, and the rows and columns of the response are those of
\* the parsed table and of the entry stored under the returned file_id.  (The
\* uploads whose preview construction raises are left out of the statement.)
C1_WellFormedUploadSucceeds ==
    (/\ req.endpoint = "upload"
     /\ req.content # NoContent
     /\ ExtensionAllowed(req.filename)
     /\ WellFormed(req.filename, req.content)
     /\ ~req.raised)
    => /\ resp.status = 200
       /\ resp.rows = req.content.rows
       /\ resp.columns = req.content.columns
       /\ resp.file_id \in DOMAIN uploaded_files
       /\ uploaded_files[resp.file_id].rows = resp.rows
       /\ uploaded_files[resp.file_id].columns = resp.columns

\* C2: an identifier that is in the store stays in it, and its entry
\* (dataframe, filename, rows, columns) never changes, whatever request is
\* handled next.
C2_StoredTablesPersist ==
    [][\A id \in DOMAIN uploaded_files :
          /\ id \in DOMAIN uploaded_files'
          /\ uploaded_files'[id] = uploaded_files[id]]_vars

\* C2 witness: two tables are stored and a request that found its table has
\* been answered.
C2_Witness ==
    /\ Cardinality(DOMAIN uploaded_files) >= 2
    /\ req.endpoint = "regression"
    /\ req.known
    /\ resp.status = 200

\* C3: the store holds exactly one entry per successful upload / load-sample
\* request.
C3_StoreSizeIsSuccessCount ==
    Cardinality(DOMAIN uploaded_files) = okUploads

\* C4: a request of an endpoint taking a table identifier that names an
\* identifier not in the store is answered with a 4xx status.
C4_UnknownIdIs4xx ==
    (req.endpoint \in IdEndpoints /\ ~req.known) => resp.status \in 400..499

\* C6: when the statistics / regression computation of an endpoint raises,
\* the response has a 5xx status.
C6_ComputationErrorIs5xx ==
    (req.endpoint \in IdEndpoints /\ req.raised) => resp.status \in 500..599

-----------------------------------------------------------------------------
(* The claims on the type detector *)

Detected == detection # NoDetection

\* C8: detect_variable_type answers 'date' exactly when the date check holds,
\* 'categorical' exactly when the date check fails and the categorical check
\* holds, 'numeric' exactly when both fail and the numeric check holds, and
\* 'text' exactly when all three fail.
C8_DetectionOrder ==
    Detected =>
        LET isDate == is_date_type(column, detection.matches)
            isCategorical == is_categorical_type(column, detection.total_rows)
            isNumeric == is_numeric_type(column, detection.converted)
        IN  /\ (detection.detected_type = "date") <=> isDate
            /\ (detection.detected_type = "categorical") <=>
                   (~isDate /\ isCategorical)
            /\ (detection.detected_type = "numeric") <=>
                   (~isDate /\ ~isCategorical /\ isNumeric)
            /\ (detection.detected_type = "text") <=>
                   (~isDate /\ ~isCategorical /\ ~isNumeric)

\* a column on which the categorical and the numeric check both hold
C8_Witness ==
    /\ Detected
    /\ is_categorical_type(column, detection.total_rows)
    /\ is_numeric_type(column, detection.converted)
    /\ detection.detected_type = "categorical"

\* C9 (as stated): every column of numeric dtype with at least one non-missing
\* value and at most 20 distinct values is classified 'categorical'.
C9_NumericUpTo20IsCategorical ==
    (/\ Detected
     /\ column.dtype = "numeric"
     /\ NonNull(column) >= 1
     /\ column.unique <= 20)
        => detection.detected_type = "categorical"

\* C9 (amended): a column of numeric dtype with at least one non-missing value
\* is classified 'categorical' exactly when its distinct values are fewer than
\* 20 and fewer than half the rows of the table, and 'numeric' otherwise.
C9_NumericBelowCapAndHalfIsCategorical ==
    (/\ Detected
     /\ column.dtype = "numeric"
     /\ NonNull(column) >= 1)
        => /\ (detection.detected_type = "categorical") <=>
                  (column.unique < 20 /\ 2 * column.unique < column.len)
           /\ (detection.detected_type = "numeric") <=>
                  ~(column.unique < 20 /\ 2 * column.unique < column.len)

\* a numeric column of 19 distinct values, classified categorical
C9_Witness ==
    /\ Detected
    /\ column.dtype = "numeric"
    /\ column.unique = 19
    /\ detection.detected_type = "categorical"

\* C10: the categorical check holds exactly when the distinct non-missing
\* values are fewer than min(total_rows * 0.5, 20), total_rows being the row
\* count of the table, missing entries included; seen on every column whose
\* date check fails, where the check decides between 'categorical' and the rest.
C10_CategoricalCheckCountsAllRows ==
    (Detected /\ detection.detected_type # "date")
        => /\ detection.total_rows = column.len
           /\ (detection.detected_type = "categorical") <=>
                  (2 * column.unique < column.len /\ column.unique < 20)

\* a column categorical by the rows of the table, not by its non-missing values
C10_Witness ==
    /\ Detected
    /\ column.missing > 0
    /\ column.unique >= 1
    /\ 2 * column.unique < column.len
    /\ 2 * column.unique >= NonNull(column)
    /\ detection.detected_type = "categorical"

-----------------------------------------------------------------------------
(* The claims on the group tests *)

\* C5: a t-test or Mann-Whitney request whose grouping variable does not have
\* exactly 2 groups, and an ANOVA or Kruskal-Wallis request whose grouping
\* variable has fewer than 2, is answered with a 4xx status.
C5_WrongGroupCountIs4xx ==
    (\/ result.test \in {"ttest", "mann_whitney"} /\ Len(data.sizes) # 2
     \/ result.test \in {"anova", "kruskal_wallis"} /\ Len(data.sizes) < 2)
        => result.status \in 400..499

\* C7: a statistic whose computed value is NaN or +/-Infinity is returned as
\* null, never as a finite number such as 0.0.
C7_UndefinedStatisticIsNull ==
    \A i \in DOMAIN result.raw :
        result.raw[i] \in Undefined => result.reported[i] = "null"

-----------------------------------------------------------------------------
(* The claims on all-missing columns and on dates *)

\* C11: in a table of at least one row, a column whose entries are all missing
\* is classified 'categorical': never 'date', 'numeric' or 'text'.
C11_AllMissingIsCategorical ==
    (Detected /\ column.len >= 1 /\ NonNull(column) = 0)
        => detection.detected_type = "categorical"

\* an all-missing column of several rows, detected
C11_Witness ==
    /\ Detected
    /\ column.len >= 2
    /\ column.missing = column.len
    /\ detection.detected_type = "categorical"

\* C12: a non-numeric column in which more than 80% of the sampled non-missing
\* values match a date pattern is classified 'date' whatever its number of
\* distinct values, and a column of numeric dtype is never classified 'date'.
C12_DatePriority ==
    Detected =>
        /\ (/\ column.dtype = "object"
            /\ NonNull(column) >= 1
            /\ detection.matches * 100 > 80 * SampleSize(column))
               => detection.detected_type = "date"
        /\ column.dtype = "numeric" => detection.detected_type # "date"

\* a sampled column of few distinct date-like values, which the categorical
\* check would accept, classified 'date'
C12_Witness ==
    /\ Detected
    /\ column.dtype = "object"
    /\ NonNull(column) > SampleSize(column)
    /\ detection.matches < DateLike(column)
    /\ 2 * column.unique < column.len
    /\ column.unique < 20
    /\ detection.detected_type = "date"

-----------------------------------------------------------------------------
(* The claims on the summaries *)

Summarised == summary_resp # NoSummaryResp
HasSummary == Summarised /\ "v" \in DOMAIN summary_resp.summaries
TheSummary == summary_resp.summaries["v"]

AllMissing(s) == Range(s) = {NA}

\* The non-missing values exist and none of them parses for the type
AllUnparseable(s, var_type) ==
    /\ ~AllMissing(s)
    /\ \/ var_type = "numeric" /\ Range(s) \cap NumberValues = {}
       \/ var_type = "date" /\ Range(s) \subseteq (TextValues \cup {NA})

\* C13: each of the four summary functions, on a column that is all-missing
\* or whose non-missing values are all unparseable for the declared type,
\* returns a summary whose statistic fields are null or empty, and does not
\* raise; missing_count is the number of missing entries of the column.
C13_DegenerateColumnsAreSummarised ==
    (/\ Summarised
     /\ summary_req.name = "v"
     /\ summary_req.var_type \in {"numeric", "categorical", "date", "text"}
     /\ AllMissing(variable) \/ AllUnparseable(variable, summary_req.var_type))
        => /\ summary_resp.status = 200
           /\ HasSummary
           /\ TheSummary.missing_count = Count(variable, NA)
           /\ TheSummary.count = 0
           /\ TheSummary.min = "null" /\ TheSummary.max = "null" /\ TheSummary.sd = "null"
           /\ TheSummary.min_date = "null" /\ TheSummary.max_date = "null"
           /\ summary_req.var_type = "categorical" =>
                  Len(TheSummary.frequency_table) = 0
           /\ summary_req.var_type \in {"date", "text"} => TheSummary.raw = << >>

\* a numeric summary of a column with a missing entry and a word, no number
C13_Witness ==
    /\ HasSummary
    /\ summary_req.var_type = "numeric"
    /\ NA \in Range(variable)
    /\ "abc" \in Range(variable)
    /\ AllUnparseable(variable, "numeric")
    /\ TheSummary.type = "numeric"

RECURSIVE SumOfCounts(_)
SumOfCounts(table) ==
    IF table = << >> THEN 0 ELSE Head(table).count + SumOfCounts(Tail(table))

\* C14: the frequency table of the categorical summary has one entry per
\* distinct non-missing value, in non-increasing order of count; the counts
\* sum to the number of non-missing entries; unique_count is the number of
\* entries; each percentage is 100 * count / non-missing total to two
\* decimals.
C14_FrequencyTable ==
    (HasSummary /\ summary_req.var_type = "categorical") =>
        LET table == TheSummary.frequency_table
            total == Len(variable) - Count(variable, NA)
        IN  /\ {table[i].name : i \in DOMAIN table} = Range(variable) \ {NA}
            /\ \A i, j \in DOMAIN table : i # j => table[i].name # table[j].name
            /\ \A i \in DOMAIN table : table[i].count = Count(variable, table[i].name)
            /\ \A i, j \in DOMAIN table : i < j => table[i].count >= table[j].count
            /\ SumOfCounts(table) = total
            /\ TheSummary.unique_count = Len(table)
            /\ \A i \in DOMAIN table :
                   LET error == 2 * total * table[i].percentage - 20000 * table[i].count
                   IN  -total <= error /\ error <= total

\* a table of two entries of different counts
C14_Witness ==
    /\ HasSummary
    /\ summary_req.var_type = "categorical"
    /\ Len(TheSummary.frequency_table) = 2
    /\ TheSummary.frequency_table[1].count > TheSummary.frequency_table[2].count

\* A day yyyymmdd rounded to a granularity (a week is left as its day)
RoundTo(day, rounding) ==
    CASE rounding = "year" -> day \div 10000
      [] rounding = "month" -> day \div 100
      [] OTHER -> day

\* C15: the date summary of the summary-statistics endpoints contains a
\* frequency table built from the parsed dates rounded to the granularity the
\* caller supplied; values that fail to parse are left out of min_date,
\* max_date and that table.
C15_DateFrequencyTable ==
    (HasSummary /\ summary_req.var_type = "date") =>
        LET table == TheSummary.frequency_table
            days == TheSummary.raw
        IN  /\ "frequency_table" \in TheSummary.keys
            /\ {table[i].name : i \in DOMAIN table} =
                   {RoundTo(days[i], summary_req.rounding) : i \in DOMAIN days}
            /\ SumOfCounts(table) = Len(days)
            /\ Len(days) <= Len(variable) - Count(variable, NA) - Count(variable, "abc")

KeysOf(var_type) ==
    CASE var_type = "numeric" -> NumericKeys
      [] var_type = "categorical" -> CategoricalKeys
      [] var_type = "date" -> DateKeys
      [] OTHER -> TextKeys

\* C16: in both summary-statistics endpoints the summary function that runs
\* and the 'type' tag of the summary are those of the type the client
\* declared, whatever the detector would assign to the column; a declared
\* type outside numeric/categorical/date/text produces no summary.
C16_DeclaredTypeDecides ==
    (Summarised /\ summary_req.name = "v") =>
        IF summary_req.var_type \in {"numeric", "categorical", "date", "text"}
        THEN /\ HasSummary
             /\ TheSummary.type = summary_req.var_type
             /\ TheSummary.keys = KeysOf(summary_req.var_type)
        ELSE ~HasSummary

\* a column the detector calls numeric, summarised as the declared text
C16_Witness ==
    /\ HasSummary
    /\ DetectedType(variable) = "numeric"
    /\ summary_req.var_type = "text"
    /\ TheSummary.type = "text"

-----------------------------------------------------------------------------
(* The claim on the operations over several columns *)

\* C17: in every batch operation a failure while processing one column
\* (unknown name, unknown type, too few values, or an exception of that
\* column's computation) omits only that column: the request succeeds and the
\* result holds every other requested column.
C17_ColumnFailureOmitsOnlyThatColumn ==
    batch_resp # NoBatchResp =>
        /\ batch_resp.status = 200
        /\ batch_resp.included = {i \in DOMAIN batch.columns : batch.columns[i] = "ok"}

-----------------------------------------------------------------------------
(* The claims on the regression runners *)

Answered == fit # NoFit

\* C18: both runners reject the request (raise instead of fitting a model)
\* whenever the rows left after dropping the rows with a missing value are
\* fewer than the number of predictors plus 2.
C18_TooFewRowsRejected ==
    (Answered /\ sample.valid < Len(sample.independent) + 2)
        => fit.stage = "rejected"

\* C19: logistic regression fits a model only when the dependent variable has
\* exactly 2 distinct non-missing values; with 0, 1, 3 or more the request is
\* rejected before any model is fitted, and with 2 the outcome is encoded 0/1.
C19_LogisticNeedsTwoClasses ==
    (Answered /\ fit.regression_type = "logistic") =>
        /\ sample.classes # 2 => (fit.stage = "rejected" /\ fit.status # 200)
        /\ fit.stage \in {"fitted", "failed"} => sample.classes = 2
        /\ fit.stage = "fitted" => fit.encoding = {0, 1}

\* a fitted logistic model
C19_Witness ==
    /\ Answered
    /\ fit.regression_type = "logistic"
    /\ fit.stage = "fitted"
    /\ sample.classes = 2
    /\ fit.status = 200

RECURSIVE ExpectedRows(_)
ExpectedRows(independent) ==
    IF independent = << >> THEN 1
    ELSE ExpectedRows(Tail(independent))
         + (CASE Head(independent).kind = "numeric" -> 1
              [] Head(independent).levels >= 1 -> Head(independent).levels - 1
              [] OTHER -> 0)

-----------------------------------------------------------------------------
(* Claims about the preview (PreviewSpec) *)

Previewed == preview_resp.status = 200

\* The numbers of the rows in the preview, in the order of the preview
PreviewRows == [i \in 1..Len(preview_resp.preview) |-> preview_resp.preview[i].row]

\* C21: the preview lists the rows in file order: every row of a table of at
\* most 10 rows, otherwise the first 5 rows followed by the last 5, so it has
\* min(rows, 10) entries and no row twice.
C21_PreviewFirstAndLastRows ==
    Previewed =>
        LET n == preview_table.rows
            rows == PreviewRows
        IN  /\ Len(rows) = Min(n, 10)
            /\ \A i, j \in 1..Len(rows) : i < j => rows[i] < rows[j]
            /\ n <= 10 => rows = [i \in 1..n |-> i]
            /\ n > 10 => rows = [i \in 1..10 |-> IF i <= 5 THEN i ELSE n - 10 + i]

C21_Witness ==
    /\ Previewed
    /\ preview_table.rows > 11
    /\ Len(preview_resp.preview) = 10
    /\ preview_resp.preview[6].row = preview_table.rows - 4

-----------------------------------------------------------------------------
(* Claims about load_sample_data (Spec) *)

\* A step that handles a load-sample request to its response
LoadSampleStep ==
    /\ nreq' = nreq + 1
    /\ reading' = reading
    /\ req'.endpoint = "load-sample"

\* C22: a load-sample request whose path resolves outside the sample
\* directory is answered 400 before the existence check and before any read,
\* and leaves the store as it was; a load-sample request adds a table only
\* for a file inside the directory that exists and ends in .csv/.xlsx/.xls.
C22_OutsideSampleDirRejected ==
    [][LoadSampleStep =>
         /\ ~req'.inside =>
              /\ resp'.status = 400
              /\ resp'.detail = "Invalid filename"
              /\ ~req'.exists
              /\ req'.content = NoContent
              /\ uploaded_files' = uploaded_files
         /\ uploaded_files' # uploaded_files =>
              /\ req'.inside
              /\ req'.exists
              /\ Lower(req'.filename) \in {".csv", ".xlsx", ".xls"}]_vars

C22_Witness ==
    /\ req.endpoint = "load-sample"
    /\ ~req.inside
    /\ Lower(req.filename) = ".csv"
    /\ resp.status = 400
    /\ uploaded_files # << >>

-----------------------------------------------------------------------------
(* Claims about the interpretation strings (InterpretSpec) *)

\* C23: the interpretation is a function of the reported statistics: for the
\* correlations 'Strong positive' iff p < 0.001 and r > 0.5, 'Strong negative'
\* iff p < 0.001 and r < -0.5, otherwise 'Moderate' iff p < 0.05, otherwise
\* 'No significant correlation'; for the group and paired tests a significant
\* difference iff the reported p-value is below 0.05.
C23_InterpretationFollowsReportedValues ==
    LET p == interpreted.p_value
        r == interpreted.correlation
        text == interpreted.interpretation
    IN  /\ interpreted.test \in CorrelationTests =>
              /\ text = "Strong positive correlation detected (p < 0.001)"
                   <=> (Less(p, "0.001") /\ Less("0.5", r))
              /\ text = "Strong negative correlation detected (p < 0.001)"
                   <=> (Less(p, "0.001") /\ Less(r, "-0.5"))
              /\ text = "Moderate correlation detected (p < 0.05)"
                   <=> /\ Less(p, "0.05")
                       /\ ~(Less(p, "0.001") /\ (Less("0.5", r) \/ Less(r, "-0.5")))
              /\ text = "No significant correlation (p >= 0.05)" <=> ~Less(p, "0.05")
        /\ interpreted.test \in SafeFloatTests \cup RawTests =>
              (text = Significant(interpreted.test) <=> Less(p, "0.05"))

\* C29: a test whose p-value is undefined reports nothing significant
C29_UndefinedPValueIsNotSignificant ==
    /\ interpreted.test \in SafeFloatTests \cup CorrelationTests
    /\ statistic.p_value = "nan"
    => /\ interpreted.interpretation # Significant(interpreted.test)
       /\ interpreted.interpretation \notin
            {"Strong positive correlation detected (p < 0.001)",
             "Strong negative correlation detected (p < 0.001)",
             "Moderate correlation detected (p < 0.05)"}

-----------------------------------------------------------------------------
(* Claims about the paired and correlation tests (PairSpec) *)

\* The rows where both variables are present and parse as numbers
BothNumeric ==
    SelectSeq([i \in 1..Len(pair_table) |-> i],
              LAMBDA i : pair_table[i].var1 = "number" /\ pair_table[i].var2 = "number")

\* C24: the two arrays handed to the statistic have the same length, their
\* i-th elements come from the same row, and the rows are exactly those where
\* both variables are present and numeric.
C24_PairsComeFromTheSameRow ==
    arrays.test # "none" /\ ~arrays.raised =>
        /\ Len(arrays.var1_vals) = Len(arrays.var2_vals)
        /\ arrays.var1_vals = arrays.var2_vals
        /\ arrays.var1_vals = BothNumeric

-----------------------------------------------------------------------------
(* Claims about the histogram (HistogramSpec) *)

\* (end - start) / size, rounded up
ImpliedBins(b) == ((b.end - b.start) * b.size.den + b.size.num - 1) \div b.size.num

\* C25: the traces of a histogram carry one bin specification, and when the
\* values are not all equal the number of bins it implies is between 10 and
\* 100.
C25_SharedBinsBetween10And100 ==
    histogram.drawn =>
        /\ \A i, j \in DOMAIN histogram.data : histogram.data[i].xbins = histogram.data[j].xbins
        /\ hist_input.data_range > 0 =>
             \A i \in DOMAIN histogram.data :
                 /\ ImpliedBins(histogram.data[i].xbins) >= 10
                 /\ ImpliedBins(histogram.data[i].xbins) <= 100

-----------------------------------------------------------------------------
(* Claims about failed uploads (Spec) *)

\* A step in which upload_file or load_sample_data answers its request
FileAnswerStep ==
    \/ nreq' = nreq + 1 /\ reading' = reading
    \/ nreq' = nreq /\ reading' # reading

\* C26: an upload or load-sample request answered with an error status leaves
\* the store as it was before the request.
C26_FailedUploadLeavesStore ==
    [][FileAnswerStep /\ resp'.status # 200 => uploaded_files' = uploaded_files]_vars

-----------------------------------------------------------------------------
(* Claims about the order of the checks in the routes (Spec) *)

\* C27: in the statistical-tests and regression routes a request with a
\* missing or empty required variable is answered 400 whether or not the
\* identifier is known, and a request with its variables and an unknown
\* identifier is answered 404 and the runner is not called.
C27_VariablesCheckedBeforeLookup ==
    req.endpoint \in {"statistical-tests", "regression"} =>
        /\ req.invalid => resp.status = 400
        /\ ~req.invalid /\ ~req.known => resp.status = 404 /\ ~req.raised

C27_Witness ==
    /\ req.endpoint = "statistical-tests"
    /\ req.invalid
    /\ ~req.known
    /\ resp.status = 400

-----------------------------------------------------------------------------
(* Claims about the normality tests (NormalitySpec) *)

\* C28: with n numeric values, the Shapiro-Wilk fields are null when n < 3;
\* the test runs on all n values when 3 <= n <= 5000 and on exactly 5000
\* values when n > 5000; a failure of Shapiro-Wilk or of Jarque-Bera makes
\* only that test's fields null, and the other fields are still returned.
C28_ShapiroRules ==
    normality.computed =>
        LET c == numeric_input
        IN  /\ c.n < 3 => normality.shapiro = "null" /\ normality.shapiro_n = 0
            /\ c.n >= 3 /\ c.n <= 5000 => normality.shapiro_n = c.n
            /\ c.n > 5000 => normality.shapiro_n = 5000
            /\ c.n >= 3 => (normality.shapiro = "null" <=> c.shapiro_raises)
            /\ c.n >= 1 => (normality.jb = "null" <=> c.jb_raises)
            /\ c.n >= 1 => normality.basic = "value"
            /\ normality.missing_count = c.missing

C28_Witness ==
    /\ normality.computed
    /\ numeric_input.n > 5000
    /\ numeric_input.jb_raises
    /\ normality.shapiro = "value"
    /\ normality.shapiro_n = 5000
    /\ normality.jb = "null"
    /\ normality.basic = "value"

-----------------------------------------------------------------------------
(* Claims about the group statistics (GroupStatsSpec) *)

\* The labels whose group has a numeric value
Entered == {i \in 1..Len(group_table) : group_table[i] > 0}

\* C30: the statistics reported under a label are those of the values of
\* that group, and the degrees of freedom count the groups that entered the
\* test, also when a group without numeric values is left out of the test.
C30_GroupStatisticsBelongToTheirGroup ==
    group_stats.test # "none" /\ Cardinality(Entered) >= 2 =>
        /\ ~group_stats.raised
        /\ \A i \in DOMAIN group_stats.groups :
              /\ group_stats.groups[i].values_of = group_stats.groups[i].label
              /\ group_stats.groups[i].n = group_table[group_stats.groups[i].label]
        /\ {group_stats.groups[i].label : i \in DOMAIN group_stats.groups} = Entered
        /\ group_stats.df_between = Cardinality(Entered) - 1

====
